---- MODULE Spec2Model ----
(***************************************************************************)
(* A model of the sweet compiler (src/sweet.py, src/core/*.py): the lexer, *)
(* the recursive-descent parser, the importer, the type checker and the    *)
(* code generator, and the driver that runs them in sequence.              *)
(*                                                                         *)
(* Source text is a sequence of one-character strings.  Python exceptions  *)
(* are modelled as an "err" field holding the exception's class name       *)
(* ("" when none was raised).  Python integers are unbounded, so integer   *)
(* literals are kept as decimal numerals (sign and digit sequence).        *)
(*                                                                         *)
(* Spec runs the driver on a fixed set of sources; RangeSpec runs it on    *)
(* definitions and assignments of integer literals; LexSpec runs the lexer *)
(* on identifier lexemes; CompatSpec asks Type.is_compatible_with of pairs *)
(* of types; ScanSpec runs scan_tokens one turn of its loop per step on    *)
(* short texts; ExprSpec runs the parser on expressions of two binary      *)
(* operators; CallSpec, PoolSpec, FrameSpec, EpilogueSpec, ComparisonSpec, *)
(* BooleanSpec, ArraySpec and ReturnSpec run the driver on families of     *)
(* programs: calls by argument count, string literals, frames, bodies with *)
(* returns, comparisons, boolean literals, array locals and returns;       *)
(* ScopeSpec, CharSpec, SlotSpec, NestedCallSpec, BalanceSpec, ImportSpec, *)
(* DefinitionSpec and OrderSpec do the same for function bodies with       *)
(* nested declarations, character literals, frames whose slots are used,   *)
(* calls with calls as arguments, statements that push, sequences of       *)
(* import statements, definitions without initializer and calls before or  *)
(* after the declaration of the callee.                                    *)
(***************************************************************************)
EXTENDS Integers, Sequences, FiniteSets, TLC

VARIABLES
    pc,            \* position of the driver: the stage that runs next
    output_format, \* args.output_format: "bin", "asm", "ast" or "lexer"
    src,           \* the source string handed to Parser(source)
    files,         \* the module files below the importer's base path
    pos,           \* Lexer.pos
    line,          \* Lexer.line
    column,        \* Lexer.column
    tokens,        \* Lexer.tokens / Parser.tokens
    ast,           \* the top-level node list (of the parser, then of the importer)
    imported,      \* Importer.imported_modules as returned
    checker,       \* the TypeChecker: its tables, and the exception it raised
    asm,           \* the assembly text (its lines) once generated, else None
    written,       \* TRUE once the assembly was written to the .asm file or printed
    err,           \* the exception that stopped the driver: class, message, stage
    ta,            \* a Type: the receiver of an is_compatible_with query
    tb,            \* a Type: the argument of the query
    res            \* the answers of the query, None before it

vars == <<pc, output_format, src, files, pos, line, column, tokens, ast,
          imported, checker, asm, written, err, ta, tb, res>>

-----------------------------------------------------------------------------
(* Characters *)

\* the value peek() and advance() return past the end of the source: '\0'
NUL == "NUL"

\* the printable ASCII characters in code order, starting at code 32 (the
\* grave accent, code 96, is spelled out)
AsciiPrintable ==
    <<" ", "!", "\"", "#", "$", "%", "&", "'", "(", ")", "*", "+", ",", "-",
      ".", "/", "0", "1", "2", "3", "4", "5", "6", "7", "8", "9", ":", ";",
      "<", "=", ">", "?", "@", "A", "B", "C", "D", "E", "F", "G", "H", "I",
      "J", "K", "L", "M", "N", "O", "P", "Q", "R", "S", "T", "U", "V", "W",
      "X", "Y", "Z", "[", "\\", "]", "^", "_", "GRAVE", "a", "b", "c", "d", "e",
      "f", "g", "h", "i", "j", "k", "l", "m", "n", "o", "p", "q", "r", "s",
      "t", "u", "v", "w", "x", "y", "z", "{", "|", "}", "~">>

\* ord(c)
Ord(c) ==
    IF c = "\n" THEN 10
    ELSE IF c = "\t" THEN 9
    ELSE IF c = "\r" THEN 13
    ELSE 31 + (CHOOSE i \in 1..Len(AsciiPrintable) : AsciiPrintable[i] = c)

Range(s) == {s[i] : i \in 1..Len(s)}

DigitChars == {"0", "1", "2", "3", "4", "5", "6", "7", "8", "9"}
LowerChars == {AsciiPrintable[i] : i \in 66..91}
UpperChars == {AsciiPrintable[i] : i \in 34..59}

\* str.isspace(), str.isalpha(), str.isdigit(), str.isalnum() on one character
isspace(c) == c \in {" ", "\n", "\t", "\r"}
isalpha(c) == c \in LowerChars \cup UpperChars
isdigit(c) == c \in DigitChars
isalnum(c) == isalpha(c) \/ isdigit(c)

\* a Python str built from a sequence of characters
RECURSIVE Str(_)
Str(cs) == IF Len(cs) = 0 THEN "" ELSE Head(cs) \o Str(Tail(cs))

-----------------------------------------------------------------------------
(* Python integers: [neg, mag], mag a decimal numeral, most significant    *)
(* digit first, without leading zeros (zero is <<0>>, never negative).     *)

RECURSIVE StripZeros(_)
StripZeros(ds) ==
    IF Len(ds) > 1 /\ Head(ds) = 0 THEN StripZeros(Tail(ds)) ELSE ds

BigNat(ds) == [neg |-> FALSE, mag |-> StripZeros(ds)]

\* int(s) for a run of ASCII digits
IntOfDigits(cs) == BigNat([i \in 1..Len(cs) |-> Ord(cs[i]) - 48])

\* -x
BigNeg(x) == IF x.mag = <<0>> THEN x ELSE [neg |-> ~x.neg, mag |-> x.mag]

RECURSIVE MagLessLex(_, _)
MagLessLex(a, b) ==
    IF Len(a) = 0 THEN FALSE
    ELSE IF Head(a) # Head(b) THEN Head(a) < Head(b)
    ELSE MagLessLex(Tail(a), Tail(b))

MagLess(a, b) ==
    \/ Len(a) < Len(b)
    \/ Len(a) = Len(b) /\ MagLessLex(a, b)

\* x <= y
BigLeq(x, y) ==
    IF x.neg /\ ~y.neg THEN TRUE
    ELSE IF ~x.neg /\ y.neg THEN FALSE
    ELSE IF ~x.neg THEN ~MagLess(y.mag, x.mag)
    ELSE ~MagLess(x.mag, y.mag)

\* 1 << bits at the widths __check_integer_range shifts by, as decimal digits
Pow2Mag ==
    7 :> <<1, 2, 8>>
    @@ 8 :> <<2, 5, 6>>
    @@ 15 :> <<3, 2, 7, 6, 8>>
    @@ 16 :> <<6, 5, 5, 3, 6>>
    @@ 31 :> <<2, 1, 4, 7, 4, 8, 3, 6, 4, 8>>
    @@ 32 :> <<4, 2, 9, 4, 9, 6, 7, 2, 9, 6>>
    @@ 63 :> <<9, 2, 2, 3, 3, 7, 2, 0, 3, 6, 8, 5, 4, 7, 7, 5, 8, 0, 8>>
    @@ 64 :> <<1, 8, 4, 4, 6, 7, 4, 4, 0, 7, 3, 7, 0, 9, 5, 5, 1, 6, 1, 6>>

\* 1 << bits
Shl1(bits) == [neg |-> FALSE, mag |-> Pow2Mag[bits]]

\* a - 1 on digit sequences, a >= 1
RECURSIVE MagPred(_)
MagPred(a) ==
    IF a[Len(a)] > 0 THEN [a EXCEPT ![Len(a)] = @ - 1]
    ELSE Append(MagPred(SubSeq(a, 1, Len(a) - 1)), 9)

\* x - 1 for x >= 1
BigPred(x) == [neg |-> FALSE, mag |-> StripZeros(MagPred(x.mag))]

\* str(x)
BigStr(x) ==
    (IF x.neg THEN "-" ELSE "")
        \o Str([i \in 1..Len(x.mag) |-> AsciiPrintable[x.mag[i] + 17]])

\* a small non-negative machine integer as a Python int, and its str()
RECURSIVE NatDigits(_)
NatDigits(n) ==
    IF n < 10 THEN <<n>> ELSE Append(NatDigits(n \div 10), n % 10)

NatStr(n) == BigStr(BigNat(NatDigits(n)))

-----------------------------------------------------------------------------
(* typechecker.py: class Type.  An optional attribute is a sequence that   *)
(* is empty for None and holds the value otherwise.                        *)

None == <<>>
Some(x) == <<x>>
IsNone(o) == Len(o) = 0
Val(o) == o[1]

\* Type(name, pointer_level, is_array, size)
TypeOf(name, pointer_level, is_array, size) ==
    [cls |-> "Type", name |-> name, pointer_level |-> pointer_level,
     is_array |-> is_array, size |-> size]

\* Type(name)
Type(name) == TypeOf(name, 0, FALSE, None)

\* Type.__eq__ (a Type is only ever compared with a Type)
TypeEq(self, other) ==
    /\ self.name = other.name
    /\ self.is_array = other.is_array
    /\ self.size = other.size
    /\ self.pointer_level = other.pointer_level

IntegerNames ==
    {"u8", "u16", "u32", "u64", "i8", "i16", "i32", "i64",
     "usize", "isize", "int", "uint", "char"}
SignedNames == {"i8", "i16", "i32", "i64", "isize", "int"}
UnsignedNames == {"u8", "u16", "u32", "u64", "usize", "uint", "char"}

is_integer(self) == self.pointer_level = 0 /\ self.name \in IntegerNames
is_signed(self) == self.pointer_level = 0 /\ self.name \in SignedNames
is_unsigned(self) == self.pointer_level = 0 /\ self.name \in UnsignedNames
is_char(self) == self.pointer_level = 0 /\ self.name = "char"
is_string(self) == self.pointer_level = 0 /\ self.name = "string"
is_bool(self) == self.pointer_level = 0 /\ self.name = "bool"
is_float(self) == self.pointer_level = 0 /\ self.name \in {"f32", "f64"}
can_have_len_property(self) == self.is_array

\* Type.is_compatible_with
is_compatible_with(self, other) ==
    IF TypeEq(self, other) THEN TRUE
    ELSE IF \/ (self.name = "string" /\ other.name = "u8"
                    /\ other.pointer_level = 1)
            \/ (other.name = "string" /\ self.name = "u8"
                    /\ self.pointer_level = 1)
    THEN TRUE
    ELSE IF \/ (self.name = "string" /\ other.name = "char"
                    /\ other.pointer_level = 1)
            \/ (other.name = "string" /\ self.name = "char"
                    /\ self.pointer_level = 1)
    THEN TRUE
    ELSE IF /\ self.pointer_level = 0 /\ other.pointer_level = 0
            /\ \/ is_unsigned(self) /\ other.name = "int"
               \/ is_signed(self) /\ other.name = "uint"
               \/ is_char(self) /\ other.name \in {"u8", "i8"}
               \/ is_char(other) /\ self.name \in {"u8", "i8"}
    THEN TRUE
    ELSE IF /\ (self.pointer_level > 0 \/ other.pointer_level > 0)
            /\ self.pointer_level = other.pointer_level
            /\ \/ self.name = other.name
               \/ self.name = "void"
               \/ other.name = "void"
               \/ self.name = "char"
               \/ other.name = "char"
    THEN TRUE
    ELSE FALSE

\* Type.__repr__
TypeRepr(t) ==
    LET RECURSIVE Stars(_)
        Stars(n) == IF n = 0 THEN "" ELSE "*" \o Stars(n - 1)
    IN  t.name \o Stars(t.pointer_level)
            \o (IF t.is_array
                THEN "[" \o (IF IsNone(t.size) THEN "None"
                             ELSE BigStr(Val(t.size))) \o "]"
                ELSE "")

-----------------------------------------------------------------------------
(* lexer.py.  A lexer is the record [source, pos, line, column, tokens,    *)
(* err, msg]; a raised LexerError sets err and msg and leaves the rest.    *)
(* A token value is tagged with its Python type: str, int, float, bool or  *)
(* none.                                                                   *)

StrV(s) == [t |-> "str", v |-> s]
IntV(n) == [t |-> "int", v |-> n]
FloatV(neg, ip, fp) == [t |-> "float", v |-> [neg |-> neg, ip |-> ip, fp |-> fp]]
BoolV(b) == [t |-> "bool", v |-> b]
NoneV == [t |-> "none", v |-> None]

\* the str of a string literal, with its characters kept beside it
StrC(cs) == [t |-> "str", v |-> Str(cs), cs |-> cs]

\* value == s for a str s
ValueIs(value, s) == value.t = "str" /\ value.v = s

\* Token(type_, value, line, column)
Token(type_, value, l, c) ==
    [type |-> type_, value |-> value, line |-> l, column |-> c]

\* Lexer.__init__: self.keywords
keywords ==
    {"let", "if", "else", "while", "return", "fn", "const", "var", "import",
     "extern"}

\* Lexer.__init__: self.symbols
symbols ==
    ("->" :> "ARROW") @@ ("==" :> "EQ") @@ ("!=" :> "NE") @@ ("<=" :> "LE")
    @@ (">=" :> "GE") @@ ("=" :> "ASSIGN") @@ ("+" :> "PLUS")
    @@ ("-" :> "MINUS") @@ ("*" :> "STAR") @@ ("/" :> "SLASH")
    @@ ("%" :> "PERCENT") @@ ("<" :> "LT") @@ (">" :> "GT") @@ ("!" :> "NOT")
    @@ ("&" :> "AND") @@ ("|" :> "OR") @@ ("^" :> "XOR")
    @@ ("&&" :> "AND_AND") @@ ("||" :> "OR_OR") @@ ("^=" :> "XOR_ASSIGN")
    @@ ("&=" :> "AND_ASSIGN") @@ ("|=" :> "OR_ASSIGN") @@ ("." :> "DOT")
    @@ (";" :> "SEMICOLON") @@ (":" :> "COLON") @@ ("(" :> "LPAREN")
    @@ (")" :> "RPAREN") @@ ("[" :> "LBRACKET") @@ ("]" :> "RBRACKET")
    @@ ("{" :> "LBRACE") @@ ("}" :> "RBRACE") @@ ("," :> "COMMA")
    @@ ("..." :> "DOTS")

\* Lexer(src)
Lexer(source) ==
    [source |-> source, pos |-> 0, line |-> 1, column |-> 1, tokens |-> <<>>,
     err |-> "", msg |-> ""]

\* Lexer.peek
peek(L, offset) ==
    IF L.pos + offset >= Len(L.source) THEN NUL
    ELSE L.source[L.pos + offset + 1]

\* Lexer.advance: the lexer afterwards (the character returned is peek(L, 0))
advance(L) ==
    IF L.pos >= Len(L.source) THEN L
    ELSE IF L.source[L.pos + 1] = "\n"
         THEN [L EXCEPT !.pos = @ + 1, !.line = @ + 1, !.column = 1]
         ELSE [L EXCEPT !.pos = @ + 1, !.column = @ + 1]

\* Lexer.add_token
add_token(L, type_, value) ==
    [L EXCEPT !.tokens = Append(@, Token(type_, value, L.line, L.column))]

\* raise LexerError(message, line, column, self.lines)
LexerError(L, message) == [L EXCEPT !.err = "LexerError", !.msg = message]

\* self.source[start:self.pos]
Slice(L, start) == SubSeq(L.source, start + 1, L.pos)

\* Lexer.skip_line_comment
RECURSIVE skip_line_comment(_)
skip_line_comment(L) ==
    IF peek(L, 0) # "\n" /\ peek(L, 0) # NUL
    THEN skip_line_comment(advance(L))
    ELSE L

\* Lexer.skip_block_comment
RECURSIVE skip_block_comment(_)
skip_block_comment(L) ==
    IF peek(L, 0) = NUL THEN LexerError(L, "Unterminated block comment")
    ELSE IF peek(L, 0) = "*" /\ peek(L, 1) = "/" THEN advance(advance(L))
    ELSE skip_block_comment(advance(L))

\* Lexer.match_symbol
match_symbol(L) ==
    LET fragment(length) == Str(SubSeq(L.source, L.pos + 1, L.pos + length))
        fits(length) ==
            /\ L.pos + length <= Len(L.source)
            /\ fragment(length) \in DOMAIN symbols
        RECURSIVE adv(_, _)
        adv(M, n) == IF n = 0 THEN M ELSE adv(advance(M), n - 1)
        take(length) ==
            add_token(adv(L, length), symbols[fragment(length)],
                      StrV(fragment(length)))
    IN  IF fits(3) THEN take(3)
        ELSE IF fits(2) THEN take(2)
        ELSE IF fits(1) THEN take(1)
        ELSE LexerError(L, "Unknown symbol '" \o peek(L, 0) \o "'")

\* Lexer.string
string(L) ==
    LET start == L.pos + 1
        RECURSIVE body(_)
        body(M) ==
            IF peek(M, 0) # "\"" /\ peek(M, 0) # NUL
            THEN IF peek(M, 0) = "\n"
                 THEN body(advance([M EXCEPT !.line = @ + 1, !.column = 0]))
                 ELSE body(advance(M))
            ELSE M
        M1 == body(advance(L))
    IN  IF peek(M1, 0) # "\""
        THEN LexerError(M1, "Unterminated string literal")
        ELSE add_token(advance(M1), "SLIT", StrC(Slice(M1, start)))

\* Lexer.char
char(L) ==
    LET M0 == advance(L)
        escaped == peek(M0, 0) = "\\"
        M1 == IF escaped THEN advance(advance(M0)) ELSE advance(M0)
        value == IF escaped THEN "\\" \o peek(advance(M0), 0)
                 ELSE peek(M0, 0)
    IN  IF peek(M1, 0) # "'"
        THEN LexerError(M1, "Unterminated char literal")
        ELSE add_token(advance(M1), "CLIT", StrV(value))

\* the loop "while self.peek().isdigit(): self.advance()"
RECURSIVE skip_digits(_)
skip_digits(L) == IF isdigit(peek(L, 0)) THEN skip_digits(advance(L)) ELSE L

\* float(s) for s = digits "." digits: integer part and fraction digits
\* without trailing zeros
RECURSIVE StripTrailingZeros(_)
StripTrailingZeros(ds) ==
    IF Len(ds) > 0 /\ ds[Len(ds)] = 0
    THEN StripTrailingZeros(SubSeq(ds, 1, Len(ds) - 1))
    ELSE ds

FloatOfDigits(ip, fp) ==
    FloatV(FALSE, IntOfDigits(ip).mag,
           StripTrailingZeros([i \in 1..Len(fp) |-> Ord(fp[i]) - 48]))

\* Lexer.number
number(L) ==
    LET start == L.pos
        M1 == skip_digits(L)
    IN  IF peek(M1, 0) = "." /\ isdigit(peek(M1, 1))
        THEN LET M2 == skip_digits(advance(M1))
             IN  add_token(M2, "FLIT",
                           FloatOfDigits(Slice(M1, start),
                                         SubSeq(M2.source, M1.pos + 2, M2.pos)))
        ELSE add_token(M1, "NLIT", IntV(IntOfDigits(Slice(M1, start))))

\* the loop of Lexer.identifier
RECURSIVE skip_ident(_)
skip_ident(L) ==
    IF isalnum(peek(L, 0)) \/ peek(L, 0) = "_" THEN skip_ident(advance(L))
    ELSE L

\* Lexer.identifier
identifier(L) ==
    LET M == skip_ident(L)
        value == Str(Slice(M, L.pos))
    IN  IF value \in keywords THEN add_token(M, "KEYWORD", StrV(value))
        ELSE IF value = "true" THEN add_token(M, "BLIT", BoolV(TRUE))
        ELSE IF value = "false" THEN add_token(M, "BLIT", BoolV(FALSE))
        ELSE add_token(M, "IDENT", StrV(value))

\* which branch of the loop of scan_tokens the next character takes
ScanBranch(L) ==
    LET c == peek(L, 0)
    IN  IF isspace(c) THEN "space"
        ELSE IF c = "/" THEN "slash"
        ELSE IF isalpha(c) \/ c = "_" THEN "identifier"
        ELSE IF isdigit(c) THEN "number"
        ELSE IF c = "\"" THEN "string"
        ELSE IF c = "'" THEN "char"
        ELSE "symbol"

\* the branch "elif c == '/'" of scan_tokens
scan_slash(L) ==
    LET M == advance(L)
    IN  IF peek(M, 0) = "/" THEN skip_line_comment(advance(M))
        ELSE IF peek(M, 0) = "*" THEN skip_block_comment(advance(M))
        ELSE add_token(M, "SLASH", NoneV)

\* a loop of scan_tokens that meets white space and does not consume it
ScanStepKeepsSpace(L) ==
    IF ScanBranch(L) = "space" THEN L
    ELSE IF ScanBranch(L) = "slash" THEN scan_slash(L)
    ELSE IF ScanBranch(L) = "identifier" THEN identifier(L)
    ELSE IF ScanBranch(L) = "number" THEN number(L)
    ELSE IF ScanBranch(L) = "string" THEN string(L)
    ELSE IF ScanBranch(L) = "char" THEN char(L)
    ELSE match_symbol(L)

\* one turn of the loop of Lexer.scan_tokens (self.pos < len(self.source))
ScanStep(L) ==
    LET b == ScanBranch(L)
    IN  IF b = "space" THEN advance(L)
        ELSE IF b = "slash" THEN scan_slash(L)
        ELSE IF b = "identifier" THEN identifier(L)
        ELSE IF b = "number" THEN number(L)
        ELSE IF b = "string" THEN string(L)
        ELSE IF b = "char" THEN char(L)
        ELSE match_symbol(L)

\* Lexer.scan_tokens
RECURSIVE scan_loop(_)
scan_loop(L) ==
    IF L.err # "" THEN L
    ELSE IF L.pos < Len(L.source) THEN scan_loop(ScanStep(L))
    ELSE add_token(L, "EOF", NoneV)

scan_tokens(L) == scan_loop(L)

-----------------------------------------------------------------------------
(* parser.py: the AST nodes.  A node is a record whose cls field is the    *)
(* name of its class.  Where Python keeps either a str or a node in one    *)
(* attribute the model tags it: StrV(s) or NodeV(n).                       *)

NodeV(n) == [t |-> "node", v |-> n]
Nil == [cls |-> "Nil"]

NumberLiteral(value) == [cls |-> "NumberLiteral", value |-> value]
BooleanLiteral(value) == [cls |-> "BooleanLiteral", value |-> value]
StringLiteral(value) == [cls |-> "StringLiteral", value |-> value]
ArrayLiteral(elements) == [cls |-> "ArrayLiteral", elements |-> elements]
PointerLiteral(address) == [cls |-> "PointerLiteral", address |-> address]
BinaryOp(left, op, right) ==
    [cls |-> "BinaryOp", left |-> left, op |-> op, right |-> right]
ImportNode(parts, imported_symbols) ==
    [cls |-> "ImportNode", parts |-> parts,
     imported_symbols |-> imported_symbols]
FunctionCall(name, arguments) ==
    [cls |-> "FunctionCall", name |-> name, arguments |-> arguments]
VariableAccess(parts) == [cls |-> "VariableAccess", parts |-> parts]
ReturnNode(expression) == [cls |-> "ReturnNode", expression |-> expression]
Parameter(name, type_) ==
    [cls |-> "Parameter", name |-> name, type_ |-> type_]
FunctionDef(name, parameters, return_type, body, is_public) ==
    [cls |-> "FunctionDef", name |-> name, parameters |-> parameters,
     return_type |-> return_type, body |-> body, is_public |-> is_public]
VariableDef(name, type_, value, is_public) ==
    [cls |-> "VariableDef", name |-> name, type_ |-> type_, value |-> value,
     is_public |-> is_public]
Assignment(name, value) ==
    [cls |-> "Assignment", name |-> name, value |-> value]
AsmBlock(instructions) ==
    [cls |-> "AsmBlock", instructions |-> instructions]
Dereference(expr) == [cls |-> "Dereference", expr |-> expr]
Cast(expr, target_type) ==
    [cls |-> "Cast", expr |-> expr, target_type |-> target_type]

\* ExternDecl.__init__ with is_var given
ExternDeclVar(name, is_variadic, return_type, parameters, is_var) ==
    [cls |-> "ExternDecl", name |-> name, is_variadic |-> is_variadic,
     return_type |-> IF IsNone(return_type) THEN Some(Type("void"))
                     ELSE return_type,
     parameters |-> parameters, var |-> is_var]

\* ExternDecl.__init__ with is_var left at its default, False
ExternDecl(name, is_variadic, return_type, parameters) ==
    ExternDeclVar(name, is_variadic, return_type, parameters, FALSE)

-----------------------------------------------------------------------------
(* parser.py: class Parser.  A parser is [tokens, current_index, err,      *)
(* msg]; a parse method yields [p, n]: the parser afterwards and the value *)
(* returned.  A raised exception sets err; every method returns at once    *)
(* when err is set, so that nothing happens after a raise.                 *)

R(p, n) == [p |-> p, n |-> n]

\* "x = e" followed by the statements that read x is written
\* The({ statements : x \in {e} }): the value of the statements, x being e
The(S) == CHOOSE v \in S : TRUE

\* Parser.current_token
current_token(P) ==
    IF P.current_index < Len(P.tokens) THEN P.tokens[P.current_index + 1]
    ELSE Token("EOF", NoneV, -1, -1)

cur_type(P) == current_token(P).type

\* raise self.ParserError(message, ...)
ParserError(P, message) == [P EXCEPT !.err = "ParserError", !.msg = message]

\* Parser.eat: the parser afterwards (the token returned is current_token(P))
eat(P) == IF P.err # "" THEN P ELSE [P EXCEPT !.current_index = @ + 1]

\* Parser.expect
expect(P, type_) ==
    IF P.err # "" THEN R(P, current_token(P))
    ELSE IF cur_type(P) = type_ THEN R(eat(P), current_token(P))
    ELSE R(ParserError(P, "Expected TokenType." \o type_
                              \o ", got TokenType." \o cur_type(P)),
           current_token(P))

\* Parser.parse_type
parse_type(P) ==
    LET RECURSIVE stars(_, _)
        stars(Q, n) ==
            IF Q.err = "" /\ cur_type(Q) = "STAR" THEN stars(eat(Q), n + 1)
            ELSE R(Q, n)
    IN  IF P.err # "" THEN R(P, Nil)
        ELSE The({ The({
            IF r2.p.err = "" /\ cur_type(r2.p) = "LBRACKET"
            THEN The({
                IF Q1.err = "" /\ cur_type(Q1) = "NLIT"
                THEN R(expect(eat(Q1), "RBRACKET").p,
                       TypeOf(r1.n.value.v, r2.n, TRUE,
                              Some(current_token(Q1).value.v)))
                ELSE R(expect(Q1, "RBRACKET").p,
                       TypeOf(r1.n.value.v, r2.n, TRUE, None))
                : Q1 \in {eat(r2.p)} })
            ELSE R(r2.p, TypeOf(r1.n.value.v, r2.n, FALSE, None))
            : r2 \in {stars(r1.p, 0)} })
            : r1 \in {expect(P, "IDENT")} })

\* Parser.parse_dotted_identifier
parse_dotted_identifier(P) ==
    LET RECURSIVE more(_, _)
        more(r, parts) ==
            IF r.p.err = "" /\ cur_type(r.p) = "DOT"
            THEN more(expect(eat(r.p), "IDENT"),
                      Append(parts, r.n.value.v))
            ELSE R(r.p, Append(parts, r.n.value.v))
    IN  more(expect(P, "IDENT"), <<>>)

\* Parser.parse_import
parse_import(P) ==
    LET RECURSIVE syms(_, _)
        syms(r, acc) ==
            IF r.p.err # "" \/ cur_type(r.p) # "COMMA"
            THEN R(r.p, Append(acc, r.n.value.v))
            ELSE syms(expect(eat(r.p), "IDENT"), Append(acc, r.n.value.v))
    IN  The({
            IF r1.p.err = "" /\ cur_type(r1.p) = "COLON"
            THEN The({ R(expect(r2.p, "SEMICOLON").p,
                         ImportNode(r1.n, Some(r2.n)))
                       : r2 \in {syms(expect(eat(r1.p), "IDENT"), <<>>)} })
            ELSE R(expect(r1.p, "SEMICOLON").p, ImportNode(r1.n, None))
            : r1 \in {parse_dotted_identifier(expect(P, "KEYWORD").p)} })

\* -value for the value of a NumberLiteral
NegValue(value) ==
    IF value.t = "int" THEN IntV(BigNeg(value.v))
    ELSE FloatV(~value.v.neg, value.v.ip, value.v.fp)

\* parse_expression: PRECEDENCE
PRECEDENCE ==
    ("OR_OR" :> 1) @@ ("OR" :> 2) @@ ("XOR" :> 3) @@ ("AND_AND" :> 4)
    @@ ("AND" :> 5) @@ ("EQ" :> 6) @@ ("NE" :> 6) @@ ("LT" :> 7)
    @@ ("GT" :> 7) @@ ("LE" :> 7) @@ ("GE" :> 7) @@ ("PLUS" :> 8)
    @@ ("MINUS" :> 8) @@ ("STAR" :> 9) @@ ("SLASH" :> 9) @@ ("PERCENT" :> 9)

\* "for _ in range(deref_level): node = Dereference(node)"
RECURSIVE WrapDeref(_, _)
WrapDeref(node, deref_level) ==
    IF deref_level = 0 THEN node
    ELSE WrapDeref(Dereference(node), deref_level - 1)

\* "len(var_access.parts) == 1 and isinstance(var_access.parts[0], str)"
IsBareName(var_access) ==
    Len(var_access.parts) = 1 /\ var_access.parts[1].t = "str"

RECURSIVE parse_expression(_, _)
RECURSIVE parse_unary(_)
RECURSIVE parse_primary(_)
RECURSIVE parse_variable_access_with_indexing(_)
RECURSIVE parse_expression_list(_, _)

\* the loop "while True: xs.append(self.parse_expression()); if the current
\* token is not a comma: break; self.eat()" of parse_arguments and of the
\* array literal; r is the expression parsed last
parse_expression_list(r, acc) ==
    IF r.p.err # "" \/ cur_type(r.p) # "COMMA" THEN R(r.p, Append(acc, r.n))
    ELSE parse_expression_list(parse_expression(eat(r.p), 0),
                               Append(acc, r.n))

\* Parser.parse_arguments
parse_arguments(P) ==
    IF P.err # "" \/ cur_type(P) = "RPAREN" THEN R(expect(P, "RPAREN").p, <<>>)
    ELSE The({ R(expect(r.p, "RPAREN").p, r.n)
               : r \in {parse_expression_list(parse_expression(P, 0),
                                              <<>>)} })

\* Parser.parse_variable_access_with_indexing
parse_variable_access_with_indexing(P) ==
    LET RECURSIVE more(_, _)
        more(Q, parts) ==
            IF Q.err # "" THEN R(Q, VariableAccess(parts))
            ELSE IF cur_type(Q) = "DOT"
            THEN The({ more(r.p, Append(parts, StrV(r.n.value.v)))
                       : r \in {expect(eat(Q), "IDENT")} })
            ELSE IF cur_type(Q) = "LBRACKET"
            THEN The({ more(expect(r.p, "RBRACKET").p,
                            Append(parts, NodeV(r.n)))
                       : r \in {parse_expression(eat(Q), 0)} })
            ELSE R(Q, VariableAccess(parts))
    IN  IF P.err # "" THEN R(P, Nil)
        ELSE The({ more(r1.p, <<StrV(r1.n.value.v)>>)
                   : r1 \in {expect(P, "IDENT")} })

\* Parser.parse_primary
parse_primary(P) ==
    LET tok == current_token(P)
        RECURSIVE stars(_, _)
        stars(Q, n) ==
            IF cur_type(Q) = "STAR" THEN stars(eat(Q), n + 1) ELSE R(Q, n)
        \* "if self.current_token().type == TokenType.ASSIGN:" of both the
        \* STAR and the IDENT branch, r3 the parsed right-hand side
        assign(name, bare, r3) ==
            IF r3.p.err # "" THEN r3
            ELSE IF bare THEN R(r3.p, Assignment(name, r3.n))
            ELSE R(ParserError(r3.p,
                     "Assignment to indexed variables not supported yet"),
                   Nil)
    IN  IF P.err # "" THEN R(P, Nil)
        ELSE IF tok.type = "NLIT" \/ tok.type = "FLIT"
        THEN R(eat(P), NumberLiteral(tok.value))
        ELSE IF tok.type = "SLIT" THEN R(eat(P), StringLiteral(tok.value.cs))
        ELSE IF tok.type = "BLIT" THEN R(eat(P), BooleanLiteral(tok.value))
        ELSE IF tok.type = "KEYWORD" /\ ValueIs(tok.value, "null")
        THEN R(eat(P), PointerLiteral(IntV(BigNat(<<0>>))))
        ELSE IF tok.type = "LBRACKET"
        THEN IF cur_type(eat(P)) = "RBRACKET"
             THEN R(eat(eat(P)), ArrayLiteral(<<>>))
             ELSE The({ R(expect(r.p, "RBRACKET").p, ArrayLiteral(r.n))
                        : r \in {parse_expression_list(
                                     parse_expression(eat(P), 0), <<>>)} })
        ELSE IF tok.type = "STAR"
        THEN The({ The({
            IF r2.p.err # "" THEN r2
            ELSE IF cur_type(r2.p) = "LPAREN"
            THEN R(ParserError(r2.p, "Attempt to deref function call"), Nil)
            ELSE IF cur_type(r2.p) = "ASSIGN"
            THEN assign(NodeV(WrapDeref(r2.n, r1.n)), IsBareName(r2.n),
                        parse_expression(eat(r2.p), 0))
            ELSE R(r2.p, WrapDeref(r2.n, r1.n))
            : r2 \in {parse_variable_access_with_indexing(r1.p)} })
            : r1 \in {stars(eat(P), 1)} })
        ELSE IF tok.type = "IDENT"
        THEN The({
            IF r2.p.err # "" THEN r2
            ELSE IF cur_type(r2.p) = "LPAREN"
            THEN The({ R(ra.p, FunctionCall(r2.n.parts[1].v, ra.n))
                       : ra \in {parse_arguments(eat(r2.p))} })
            ELSE IF cur_type(r2.p) = "ASSIGN"
            THEN assign(StrV(r2.n.parts[1].v), IsBareName(r2.n),
                        parse_expression(eat(r2.p), 0))
            ELSE r2
            : r2 \in {parse_variable_access_with_indexing(P)} })
        ELSE IF tok.type = "LPAREN"
        THEN The({ R(expect(r.p, "RPAREN").p, r.n)
                   : r \in {parse_expression(eat(P), 0)} })
        ELSE R(ParserError(P, "Unexpected token: TokenType." \o tok.type),
               Nil)

\* Parser.parse_unary
parse_unary(P) ==
    LET RECURSIVE casts(_)
        casts(r) ==
            IF /\ r.p.err = ""
               /\ cur_type(r.p) = "KEYWORD"
               /\ ValueIs(current_token(r.p).value, "as")
            THEN The({ casts(R(rt.p, Cast(r.n, rt.n)))
                       : rt \in {parse_type(eat(r.p))} })
            ELSE r
    IN  IF P.err # "" THEN R(P, Nil)
        ELSE IF cur_type(P) = "MINUS"
        THEN The({
            IF r.p.err # "" THEN r
            ELSE IF r.n.cls = "NumberLiteral"
            THEN R(r.p, NumberLiteral(NegValue(r.n.value)))
            ELSE R(r.p, BinaryOp(NumberLiteral(IntV(BigNat(<<0>>))),
                                 "MINUS", r.n))
            : r \in {parse_unary(eat(P))} })
        ELSE IF cur_type(P) = "AND"
        THEN The({ R(r.p, PointerLiteral(NodeV(r.n)))
                   : r \in {parse_unary(eat(P))} })
        ELSE casts(parse_primary(P))

\* a parse_expression that parses the right operand at the level of the
\* operator itself: operators of one level group to the right
parse_expression_right(P, precedence) ==
    LET RECURSIVE climb(_)
        climb(r) ==
            IF r.p.err # "" THEN r
            ELSE IF cur_type(r.p) \notin DOMAIN PRECEDENCE THEN r
            ELSE IF PRECEDENCE[cur_type(r.p)] < precedence THEN r
            ELSE The({ climb(R(rr.p, BinaryOp(r.n, cur_type(r.p), rr.n)))
                       : rr \in {parse_expression(
                                     eat(r.p),
                                     PRECEDENCE[cur_type(r.p)])} })
    IN  IF P.err # "" THEN R(P, Nil) ELSE climb(parse_unary(P))

\* Parser.parse_expression
parse_expression(P, precedence) ==
    LET RECURSIVE climb(_)
        climb(r) ==
            IF r.p.err # "" THEN r
            ELSE IF cur_type(r.p) \notin DOMAIN PRECEDENCE THEN r
            ELSE IF PRECEDENCE[cur_type(r.p)] < precedence THEN r
            ELSE The({ climb(R(rr.p, BinaryOp(r.n, cur_type(r.p), rr.n)))
                       : rr \in {parse_expression(
                                     eat(r.p),
                                     PRECEDENCE[cur_type(r.p)] + 1)} })
    IN  IF P.err # "" THEN R(P, Nil) ELSE climb(parse_unary(P))

\* Parser.parse_parameters
parse_parameters(P) ==
    LET RECURSIVE params(_, _)
        params(Q, acc) ==
            The({ The({
                IF r2.p.err # "" \/ cur_type(r2.p) # "COMMA"
                THEN R(r2.p, Append(acc, Parameter(r1.n.value.v, r2.n)))
                ELSE params(eat(r2.p),
                            Append(acc, Parameter(r1.n.value.v, r2.n)))
                : r2 \in {parse_type(expect(r1.p, "COLON").p)} })
                : r1 \in {expect(Q, "IDENT")} })
    IN  IF P.err # "" THEN R(P, <<>>)
        ELSE IF cur_type(P) = "RPAREN" THEN R(eat(P), <<>>)
        ELSE The({ R(expect(r.p, "RPAREN").p, r.n)
                   : r \in {params(P, <<>>)} })

\* Parser.parse_variable
parse_variable(P, is_public) ==
    The({ The({
        IF r2.p.err = "" /\ cur_type(r2.p) = "ASSIGN"
        THEN The({ R(expect(r3.p, "SEMICOLON").p,
                     VariableDef(r1.n.value.v, r2.n, Some(r3.n), is_public))
                   : r3 \in {parse_expression(eat(r2.p), 0)} })
        ELSE R(expect(r2.p, "SEMICOLON").p,
               VariableDef(r1.n.value.v, r2.n, None, is_public))
        : r2 \in {parse_type(expect(r1.p, "COLON").p)} })
        : r1 \in {expect(expect(P, "KEYWORD").p, "IDENT")} })

\* Parser.parse_extern
parse_extern(P) ==
    LET \* the parameter list yields [p, n]: n = <<parameters, is_variadic>>
        RECURSIVE types(_, _)
        types(Q, acc) ==
            IF Q.err # "" THEN R(Q, <<acc, FALSE>>)
            ELSE IF cur_type(Q) = "DOTS" THEN R(eat(Q), <<acc, TRUE>>)
            ELSE The({ IF r.p.err # "" \/ cur_type(r.p) # "COMMA"
                       THEN R(r.p, <<Append(acc, r.n), FALSE>>)
                       ELSE types(eat(r.p), Append(acc, r.n))
                       : r \in {parse_type(Q)} })
        list(Q) ==
            IF cur_type(Q) = "RPAREN" THEN R(eat(Q), <<<<>>, FALSE>>)
            ELSE The({ R(expect(r.p, "RPAREN").p, r.n)
                       : r \in {types(Q, <<>>)} })
    IN  The({ The({
            IF r2.p.err = "" /\ cur_type(r2.p) = "ARROW"
            THEN The({ R(expect(r3.p, "SEMICOLON").p,
                         ExternDecl(r1.n.value.v, r2.n[2], Some(r3.n),
                                    r2.n[1]))
                       : r3 \in {parse_type(eat(r2.p))} })
            ELSE R(expect(r2.p, "SEMICOLON").p,
                   ExternDecl(r1.n.value.v, r2.n[2], None, r2.n[1]))
            : r2 \in {IF r1.p.err = "" /\ cur_type(r1.p) = "LPAREN"
                      THEN list(eat(r1.p))
                      ELSE R(r1.p, <<<<>>, FALSE>>)} })
            : r1 \in {expect(expect(P, "KEYWORD").p, "IDENT")} })

\* str(value) for a token value
ValueStr(value) ==
    IF value.t = "str" THEN value.v
    ELSE IF value.t = "int" THEN BigStr(value.v)
    ELSE IF value.t = "bool" THEN (IF value.v THEN "True" ELSE "False")
    ELSE IF value.t = "none" THEN "None"
    ELSE BigStr([neg |-> value.v.neg, mag |-> value.v.ip]) \o "."
             \o (IF Len(value.v.fp) = 0 THEN "0"
                 ELSE BigStr([neg |-> FALSE, mag |-> value.v.fp]))

\* ' '.join(str(tok) for tok in current_line_tokens)
RECURSIVE JoinValues(_)
JoinValues(vs) ==
    IF Len(vs) = 0 THEN ""
    ELSE IF Len(vs) = 1 THEN ValueStr(vs[1])
    ELSE ValueStr(vs[1]) \o " " \o JoinValues(Tail(vs))

\* Parser.parse_asm_block (a token value holds no outer blanks unless it is
\* the body of a string literal, so strip() is left out)
parse_asm_block(P) ==
    LET add(instructions, instruction) ==
            IF instruction # "" THEN Append(instructions, instruction)
            ELSE instructions
        flush(instructions, current_line_tokens) ==
            add(instructions, JoinValues(current_line_tokens))
        RECURSIVE block(_, _, _)
        block(Q, instructions, current_line_tokens) ==
            IF Q.err # "" THEN R(Q, instructions)
            ELSE IF cur_type(Q) = "RBRACE"
            THEN R(Q, IF Len(current_line_tokens) > 0
                      THEN flush(instructions, current_line_tokens)
                      ELSE instructions)
            ELSE IF cur_type(Q) = "EOF"
            THEN R([Q EXCEPT !.err = "Exception",
                             !.msg = "Unexpected EOF in asm block"],
                   instructions)
            ELSE IF ValueIs(current_token(Q).value, ";")
            THEN block(eat(Q), flush(instructions, current_line_tokens),
                       <<>>)
            ELSE block(eat(Q), instructions,
                       Append(current_line_tokens, current_token(Q).value))
    IN  The({ R(expect(r2.p, "RBRACE").p, AsmBlock(r2.n))
              : r2 \in {block(expect(expect(P, "KEYWORD").p, "LBRACE").p,
                              <<>>, <<>>)} })

RECURSIVE parse_statement(_)
RECURSIVE parse_function(_, _)

\* the loop "while self.current_token().type != <closing>:
\* xs.append(self.parse_statement())" of parse_function (closing RBRACE) and
\* of parse (closing EOF)
RECURSIVE parse_statements(_, _, _)
parse_statements(P, closing, acc) ==
    IF P.err # "" \/ cur_type(P) = closing THEN R(P, acc)
    ELSE The({ parse_statements(r.p, closing, Append(acc, r.n))
               : r \in {parse_statement(P)} })

\* Parser.parse_function
parse_function(P, is_public) ==
    IF P.err # "" THEN R(P, Nil)
    ELSE The({ The({ The({ The({
        R(expect(r4.p, "RBRACE").p,
          FunctionDef(r1.n.value.v, r2.n, r3.n, r4.n, is_public))
        : r4 \in {parse_statements(expect(r3.p, "LBRACE").p, "RBRACE",
                                   <<>>)} })
        \* return_type, None without "->"
        : r3 \in {IF r2.p.err = "" /\ cur_type(r2.p) = "ARROW"
                  THEN The({ R(rt.p, Some(rt.n))
                             : rt \in {parse_type(eat(r2.p))} })
                  ELSE R(r2.p, None)} })
        : r2 \in {parse_parameters(expect(r1.p, "LPAREN").p)} })
        : r1 \in {expect(expect(P, "KEYWORD").p, "IDENT")} })

\* Parser.parse_statement
parse_statement(P) ==
    LET keyword(value) ==
            cur_type(P) = "KEYWORD" /\ current_token(P).value.v = value
    IN  IF P.err # "" THEN R(P, Nil)
        ELSE IF keyword("import") THEN parse_import(P)
        ELSE IF keyword("return")
        THEN IF cur_type(eat(P)) # "SEMICOLON"
             THEN The({ R(expect(r.p, "SEMICOLON").p, ReturnNode(Some(r.n)))
                        : r \in {parse_expression(eat(P), 0)} })
             ELSE R(eat(eat(P)), ReturnNode(None))
        ELSE IF keyword("pub")
        THEN IF cur_type(eat(P)) = "KEYWORD"
                   /\ ValueIs(current_token(eat(P)).value, "fn")
             THEN parse_function(eat(P), TRUE)
             ELSE parse_variable(eat(P), TRUE)
        ELSE IF keyword("fn") THEN parse_function(P, FALSE)
        ELSE IF keyword("var") THEN parse_variable(P, FALSE)
        ELSE IF keyword("extern") THEN parse_extern(P)
        ELSE IF keyword("asm") THEN parse_asm_block(P)
        ELSE The({ R(expect(r.p, "SEMICOLON").p, r.n)
                   : r \in {parse_expression(P, 0)} })

\* Parser.__init__: the lexer runs in the constructor, a LexerError leaves it
Parser(source) ==
    The({ [tokens |-> lexer.tokens, current_index |-> 0,
           err |-> lexer.err, msg |-> lexer.msg]
          : lexer \in {scan_tokens(Lexer(source))} })

\* Parser.parse
parse(P) == parse_statements(P, "EOF", <<>>)

-----------------------------------------------------------------------------
(* importer.py: class Importer.  An importer is [visited,                  *)
(* imported_modules, err, msg]; fs maps the path of each module file to    *)
(* its text.  Python iterates a set of str in an order that changes from   *)
(* run to run (str hashes are salted per process): order, a sequence of    *)
(* names, stands for the order of one run.                                 *)

\* Importer(base_path)
Importer ==
    [visited |-> {}, imported_modules |-> <<>>, err |-> "", msg |-> ""]

\* Importer("lib/"): self.base_path
base_path == "lib/"

\* os.path.join(*parts)
RECURSIVE PathJoin(_)
PathJoin(parts) ==
    IF Len(parts) = 1 THEN parts[1]
    ELSE parts[1] \o "/" \o PathJoin(Tail(parts))

\* Importer.resolve_module_path: the path (the FileNotFoundError is raised
\* by the caller's test ModuleMissing)
resolve_module_path(parts) == base_path \o PathJoin(parts) \o ".sw"

ModuleMissing(fs, parts) == resolve_module_path(parts) \notin DOMAIN fs

\* Importer.load_module: [p, n] as Parser.parse yields it
load_module(fs, path) == parse(Parser(fs[path]))

\* hasattr(node, "name"), with a name that is a str (the name of an
\* Assignment to a dereference is a node, which equals no symbol)
HasName(node) ==
    /\ "name" \in DOMAIN node
    /\ (node.cls = "Assignment" => node.name.t = "str")

NameOf(node) == IF node.cls = "Assignment" THEN node.name.v ELSE node.name

\* a sequence holding the members of a set in the order of this run:
\* the names of order first, as order has them, then any name it lacks
RECURSIVE SetToSeq(_)
SetToSeq(S) ==
    IF S = {} THEN <<>>
    ELSE LET x == CHOOSE y \in S : TRUE IN <<x>> \o SetToSeq(S \ {x})

IterSet(S, order) ==
    SelectSeq(order, LAMBDA x : x \in S) \o SetToSeq(S \ Range(order))

\* Importer.find_dependencies_in_node: visit(n) reads the attributes
\* children, node_type, name and body of n
RECURSIVE find_dependencies_in_node(_)
find_dependencies_in_node(n) ==
    LET Seqs(ns) ==
            UNION {find_dependencies_in_node(ns[i]) : i \in 1..Len(ns)}
    IN  (IF "children" \in DOMAIN n THEN Seqs(n.children) ELSE {})
        \cup
        (IF "name" \in DOMAIN n /\ "node_type" \in DOMAIN n
         THEN (IF n.node_type = "Call" THEN {n.name} ELSE {})
              \cup (IF "body" \in DOMAIN n THEN Seqs(n.body) ELSE {})
         ELSE {})

\* Importer.build_dependency_graph
build_dependency_graph(ast_nodes) ==
    LET named == {i \in 1..Len(ast_nodes) : HasName(ast_nodes[i])}
        last(name) ==
            CHOOSE i \in named :
                /\ NameOf(ast_nodes[i]) = name
                /\ \A j \in named : NameOf(ast_nodes[j]) = name => j <= i
    IN  [name \in {NameOf(ast_nodes[i]) : i \in named} |->
            find_dependencies_in_node(ast_nodes[last(name)])]

\* collect_dependencies that keeps every name of the module
collect_everything(syms, dep_graph) == DOMAIN dep_graph \cup Range(syms)

\* Importer.collect_dependencies
collect_dependencies(syms, dep_graph) ==
    LET RECURSIVE walk(_, _)
        walk(stack, result) ==
            IF Len(stack) = 0 THEN result
            ELSE LET sym == stack[Len(stack)]
                     rest == SubSeq(stack, 1, Len(stack) - 1)
                 IN  IF sym \in result THEN walk(rest, result)
                     ELSE IF sym \in DOMAIN dep_graph
                     THEN walk(rest \o SetToSeq(dep_graph[sym]
                                                    \ (result \cup {sym})),
                               result \cup {sym})
                     ELSE walk(rest, result \cup {sym})
    IN  walk(syms, {})

\* Importer.make_extern_node: None or the ExternDecl
make_extern_node(node) ==
    IF node.cls = "FunctionDef"
    THEN Some(ExternDecl(
            node.name,
            \E i \in 1..Len(node.parameters) :
                /\ "is_variadic" \in DOMAIN node.parameters[i]
                /\ node.parameters[i].is_variadic,
            IF IsNone(node.return_type) THEN Some(Type("void"))
            ELSE node.return_type,
            node.parameters))
    ELSE IF node.cls = "VariableDef"
    THEN Some(ExternDecl(node.name, FALSE, Some(node.type_), <<>>))
    ELSE None

\* the loop "for sym in needed_symbols" of resolve_imports
spliced_stubs(module_ast, needed_symbols, order) ==
    LET syms == IterSet(needed_symbols, order)
        found(sym) == {i \in 1..Len(module_ast) :
                          HasName(module_ast[i])
                              /\ NameOf(module_ast[i]) = sym}
        original_node(sym) ==
            module_ast[CHOOSE i \in found(sym) : \A j \in found(sym) : i <= j]
        RECURSIVE each(_)
        each(k) ==
            IF k > Len(syms) THEN <<>>
            ELSE IF found(syms[k]) = {} THEN each(k + 1)
            ELSE make_extern_node(original_node(syms[k])) \o each(k + 1)
    IN  each(1)

\* Importer.resolve_imports: [p, n] with p the importer afterwards and n
\* the resolved_ast
RECURSIVE resolve_imports(_, _, _, _)
resolve_imports(I, fs, ast_nodes, order) ==
    LET \* self.visited.add(module_path);
        \* self.imported_modules.append(module_path)
        visit(J, module_path) ==
            [J EXCEPT !.visited = @ \cup {module_path},
                      !.imported_modules = Append(@, module_path)]
        needed_symbols(node, module_ast) ==
            IF ~IsNone(node.imported_symbols)
            THEN collect_dependencies(Val(node.imported_symbols),
                                      build_dependency_graph(module_ast))
            ELSE {NameOf(module_ast[i]) :
                    i \in {j \in 1..Len(module_ast) : HasName(module_ast[j])}}
        RECURSIVE nodes(_, _, _)
        nodes(J, k, resolved_ast) ==
            IF J.err # "" \/ k > Len(ast_nodes) THEN R(J, resolved_ast)
            ELSE IF ast_nodes[k].cls # "ImportNode"
            THEN nodes(J, k + 1, Append(resolved_ast, ast_nodes[k]))
            ELSE IF ModuleMissing(fs, ast_nodes[k].parts)
            THEN R([J EXCEPT !.err = "FileNotFoundError",
                             !.msg = "Module file not found: "
                                 \o resolve_module_path(ast_nodes[k].parts)],
                   resolved_ast)
            ELSE IF resolve_module_path(ast_nodes[k].parts) \in J.visited
            THEN nodes(J, k + 1, resolved_ast)
            ELSE The({
                IF loaded.p.err # ""
                THEN R([visit(J, resolve_module_path(ast_nodes[k].parts))
                           EXCEPT !.err = loaded.p.err,
                                  !.msg = loaded.p.msg],
                       resolved_ast)
                ELSE The({
                    nodes(inner.p, k + 1,
                          resolved_ast
                              \o spliced_stubs(
                                     inner.n,
                                     needed_symbols(ast_nodes[k], inner.n),
                                     order))
                    : inner \in {resolve_imports(
                          visit(J, resolve_module_path(ast_nodes[k].parts)),
                          fs, loaded.n, order)} })
                : loaded \in {load_module(
                      fs, resolve_module_path(ast_nodes[k].parts))} })
    IN  nodes(I, 1, <<>>)

-----------------------------------------------------------------------------
(* typechecker.py: class TypeChecker.  A checker is [symbols, functions,   *)
(* current_function, err, msg]; a check method yields [p, n]: the checker  *)
(* afterwards and the type returned, None or Some(type).  err is           *)
(* "TypeError" for the module's own TypeError and "AttributeError" where   *)
(* Python raises that (an attribute read of None or of an object that      *)
(* lacks it).                                                              *)

\* struct.calcsize("P") * 8 on the x86-64 host the compiler targets
ptr_bits == 64

\* TypeChecker()
TypeChecker ==
    [symbols |-> <<>>, functions |-> <<>>, current_function |-> None,
     err |-> "", msg |-> ""]

\* raise TypeError(msg, node)
TypeError(T, message) == [T EXCEPT !.err = "TypeError", !.msg = message]

\* an attribute read that Python refuses
AttributeError(T, message) ==
    [T EXCEPT !.err = "AttributeError", !.msg = message]

\* d[k] = v
Put(d, k, v) == (k :> v) @@ d

\* a.is_compatible_with(b) for a and b that may be None: "yes", "no" or
\* "AttributeError"
Compat(a, b) ==
    IF IsNone(a) \/ IsNone(b) THEN "AttributeError"
    ELSE IF is_compatible_with(Val(a), Val(b)) THEN "yes"
    ELSE "no"

\* 3.4028235e+38 as Python holds it
F32Max ==
    <<3, 4, 0, 2, 8, 2, 3, 4, 6, 6, 3, 8, 5, 2, 8, 8, 5, 9, 8, 1, 1, 7, 0, 4,
      1, 8, 3, 4, 8, 4, 5, 1, 6, 9, 2, 5, 4, 4, 0>>

\* val <= m and m <= val for a literal value val and an int m
ValLeq(val, m) ==
    IF val.t = "int" THEN BigLeq(val.v, m)
    ELSE LET ip == [neg |-> FALSE, mag |-> val.v.ip]
             whole == Len(val.v.fp) = 0
         IN  IF ~val.v.neg THEN BigLeq(ip, m) /\ (whole \/ ip # m)
             ELSE BigLeq(BigNeg(ip), m)

LeqVal(m, val) ==
    IF val.t = "int" THEN BigLeq(m, val.v)
    ELSE LET ip == [neg |-> FALSE, mag |-> val.v.ip]
             whole == Len(val.v.fp) = 0
         IN  IF ~val.v.neg THEN BigLeq(m, ip)
             ELSE BigLeq(m, BigNeg(ip)) /\ (whole \/ m # BigNeg(ip))

\* the width N of the types uN and iN
BitsOf(name) ==
    IF name \in {"u8", "i8"} THEN 8
    ELSE IF name \in {"u16", "i16"} THEN 16
    ELSE IF name \in {"u32", "i32"} THEN 32
    ELSE 64

\* __check_integer_range: <<min_val, max_val>> of an integer type
IntegerRange(name) ==
    IF name = "usize" THEN <<BigNat(<<0>>), BigPred(Shl1(ptr_bits))>>
    ELSE IF name = "isize"
    THEN <<BigNeg(Shl1(ptr_bits - 1)), BigPred(Shl1(ptr_bits - 1))>>
    ELSE IF name \in {"u8", "u16", "u32", "u64"}
    THEN <<BigNat(<<0>>), BigPred(Shl1(BitsOf(name)))>>
    ELSE IF name \in {"i8", "i16", "i32", "i64"}
    THEN <<BigNeg(Shl1(BitsOf(name) - 1)), BigPred(Shl1(BitsOf(name) - 1))>>
    ELSE IF name = "int"
    THEN <<BigNeg(Shl1(ptr_bits - 1)), BigPred(Shl1(ptr_bits - 1))>>
    ELSE IF name = "uint"
    THEN <<BigNat(<<0>>), BigPred(Shl1(ptr_bits))>>
    ELSE <<BigNat(<<0>>), BigNat(<<2, 5, 5>>)>>

\* TypeChecker.__check_integer_range: the checker afterwards
_check_integer_range(T, type_, value_node) ==
    LET is_literal == value_node.cls \in {"NumberLiteral", "CharLiteral"}
        val == IF value_node.cls = "CharLiteral"
               THEN IntV(BigNat(NatDigits(Ord(value_node.value))))
               ELSE value_node.value
        range == IntegerRange(type_.name)
        f32max == [neg |-> FALSE, mag |-> F32Max]
    IN  IF T.err # "" THEN T
        ELSE IF is_float(type_)
        THEN IF value_node.cls # "NumberLiteral" THEN T
             ELSE IF type_.name = "f32"
                     /\ ~(LeqVal(BigNeg(f32max), val) /\ ValLeq(val, f32max))
             THEN TypeError(T, "Float literal out of range for type f32")
             ELSE T
        ELSE IF ~is_integer(type_) \/ ~is_literal THEN T
        ELSE IF ~(LeqVal(range[1], val) /\ ValLeq(val, range[2]))
        THEN TypeError(T, "Integer literal " \o ValueStr(val)
                          \o " out of range for type " \o type_.name)
        ELSE T

RECURSIVE check(_, _)

\* TypeChecker.check on a list
check_list(T, node_list) ==
    LET RECURSIVE each(_, _)
        each(r, k) ==
            IF r.p.err # "" \/ k > Len(node_list) THEN r
            ELSE each(check(r.p, node_list[k]), k + 1)
    IN  each(R(T, Some(Type("void"))), 1)

\* TypeChecker.check_NumberLiteral
check_NumberLiteral(T, node) ==
    R(T, Some(Type(IF node.value.t = "float" THEN "f64" ELSE "int")))

\* TypeChecker._check_member_access
check_member_access(T, base_type, member_name) ==
    IF member_name.t = "str" /\ member_name.v = "len"
    THEN IF can_have_len_property(base_type)
         THEN R(T, Some(Type("usize")))
         ELSE R(TypeError(T, "Type '" \o TypeRepr(base_type)
                                 \o "' has no member 'len'"), None)
    ELSE R(TypeError(T, "Unknown member on type '" \o TypeRepr(base_type)
                            \o "'"), None)

\* TypeChecker.check_VariableAccess
check_VariableAccess(T, node) ==
    LET name == node.parts[1].v
    IN  IF name \notin DOMAIN T.symbols
        THEN R(TypeError(T, "Variable '" \o name \o "' not defined"), None)
        ELSE IF Len(node.parts) > 1
        THEN check_member_access(T, T.symbols[name], node.parts[2])
        ELSE R(T, Some(T.symbols[name]))

\* the test "if not a.is_compatible_with(b): raise TypeError(...)": the
\* checker afterwards
require_compatible(T, a, b, message) ==
    IF T.err # "" THEN T
    ELSE IF Compat(a, b) = "AttributeError"
    THEN AttributeError(T, "'NoneType' object has no attribute")
    ELSE IF Compat(a, b) = "no" THEN TypeError(T, message)
    ELSE T

\* TypeChecker.check_Assignment
check_Assignment(T, node) ==
    IF node.name.t = "str" /\ node.name.v \notin DOMAIN T.symbols
    THEN R(TypeError(T, "Variable '" \o node.name.v \o "' not defined"), None)
    ELSE The({ The({ The({
        IF T3.err # "" THEN R(T3, None)
        ELSE R(_check_integer_range(T3, Val(var_type.n), node.value),
               var_type.n)
        : T3 \in {require_compatible(val_type.p, var_type.n, val_type.n,
                                     "Type mismatch in assignment")} })
        : val_type \in {check(var_type.p, node.value)} })
        : var_type \in {IF node.name.t = "str"
                        THEN R(T, Some(T.symbols[node.name.v]))
                        ELSE check(T, node.name.v)} })

\* TypeChecker.check_VariableDef
check_VariableDef(T, node) ==
    IF node.name \in DOMAIN T.symbols
    THEN R(TypeError(T, "Variable '" \o node.name \o "' already defined"),
           None)
    ELSE The({ The({
        IF T3.err # "" THEN R(T3, None)
        ELSE R([T3 EXCEPT !.symbols = Put(@, node.name, node.type_)],
               Some(node.type_))
        : T3 \in {_check_integer_range(
                      require_compatible(
                          val_type.p, Some(node.type_), val_type.n,
                          "Type mismatch in variable definition '"
                              \o node.name \o "'"),
                      node.type_, Val(node.value))} })
        \* self.check(None) finds no method check_NoneType
        : val_type \in {IF IsNone(node.value)
                        THEN R(TypeError(T, "No type checker implemented "
                                                \o "for NoneType"), None)
                        ELSE check(T, Val(node.value))} })

\* TypeChecker.check_BinaryOp
check_BinaryOp(T, node) ==
    The({ The({
        IF right_type.p.err # "" THEN R(right_type.p, None)
        ELSE IF left_type.n # right_type.n
        THEN R(TypeError(right_type.p, "Type mismatch in binary operation"),
               None)
        ELSE IF IsNone(left_type.n)
        THEN R(AttributeError(right_type.p,
                    "'NoneType' object has no attribute 'is_integer'"), None)
        ELSE IF ~(\/ is_integer(Val(left_type.n))
                  \/ is_string(Val(left_type.n))
                  \/ Val(left_type.n).is_array)
        THEN R(TypeError(right_type.p, "Unsupported operand type(s): '"
                             \o TypeRepr(Val(left_type.n)) \o "'"), None)
        ELSE R(right_type.p, left_type.n)
        : right_type \in {check(left_type.p, node.right)} })
        : left_type \in {check(T, node.left)} })

\* the loop "for param, arg in zip(parameters, arguments)" of
\* check_FunctionCall: the checker afterwards
check_arguments(T, name, parameters, arguments) ==
    LET n == IF Len(parameters) < Len(arguments) THEN Len(parameters)
             ELSE Len(arguments)
        RECURSIVE each(_, _)
        each(Q, k) ==
            IF Q.err # "" \/ k > n THEN Q
            ELSE The({
                IF arg_type.p.err # "" THEN arg_type.p
                ELSE IF "type_" \notin DOMAIN parameters[k]
                THEN AttributeError(arg_type.p,
                         "'Type' object has no attribute 'type_'")
                ELSE each(require_compatible(
                              arg_type.p, Some(parameters[k].type_),
                              arg_type.n,
                              "Function '" \o name
                                  \o "' argument '" \o parameters[k].name
                                  \o "' expects "
                                  \o TypeRepr(parameters[k].type_)),
                          k + 1)
                : arg_type \in {check(Q, arguments[k])} })
    IN  each(T, 1)

\* TypeChecker.check_FunctionCall
check_FunctionCall(T, node) ==
    LET func_def == T.functions[node.name]
        is_variadic == "is_variadic" \in DOMAIN func_def
                           /\ func_def.is_variadic
        argc == Len(node.arguments)
        paramc == Len(func_def.parameters)
    IN  IF node.name \notin DOMAIN T.functions
        THEN R(TypeError(T, "Function '" \o node.name \o "' not defined"),
               None)
        ELSE IF is_variadic /\ argc < paramc
        THEN R(TypeError(T, "Function '" \o node.name
                   \o "' expects at least " \o NatStr(paramc)
                   \o " arguments, got " \o NatStr(argc)), None)
        ELSE IF ~is_variadic /\ paramc # argc
        THEN R(TypeError(T, "Function '" \o node.name \o "' expects "
                   \o NatStr(paramc) \o " arguments, got " \o NatStr(argc)),
               None)
        ELSE The({ IF T1.err # "" THEN R(T1, None)
                   ELSE R(T1, func_def.return_type)
                   : T1 \in {check_arguments(T, node.name,
                                             func_def.parameters,
                                             node.arguments)} })

\* TypeChecker.check_ReturnNode
check_ReturnNode(T, node) ==
    IF IsNone(node.expression) THEN R(T, Some(Type("void")))
    ELSE The({
        IF return_type.p.err # "" THEN R(return_type.p, None)
        ELSE IF IsNone(return_type.p.current_function) THEN return_type
        ELSE The({ IF T2.err # "" THEN R(T2, None) ELSE return_type
                   : T2 \in {require_compatible(
                       return_type.p,
                       return_type.p.functions[
                           Val(return_type.p.current_function)].return_type,
                       return_type.n,
                       "Function returns a type other than declared")} })
        : return_type \in {check(T, Val(node.expression))} })

\* TypeChecker.check_ExternDecl
check_ExternDecl(T, node) ==
    IF node.var
    THEN IF node.name \in DOMAIN T.symbols
         THEN R(TypeError(T, "Extern variable '" \o node.name
                                 \o "' already defined"), None)
         ELSE R([T EXCEPT !.symbols = Put(@, node.name,
                                          Val(node.return_type))],
                node.return_type)
    ELSE IF node.name \in DOMAIN T.functions
         THEN R(TypeError(T, "Function '" \o node.name
                                 \o "' already defined or declared"), None)
         ELSE R([T EXCEPT !.functions = Put(@, node.name, node)],
                node.return_type)

\* a check_FunctionDef that leaves the variable table as the body made it
check_FunctionDef_unrestored(T, node) ==
    LET RECURSIVE params(_, _)
        params(Q, k) ==
            IF Q.err # "" \/ k > Len(node.parameters) THEN Q
            ELSE IF node.parameters[k].name \in DOMAIN Q.symbols
            THEN TypeError(Q, "Parameter '" \o node.parameters[k].name
                                  \o "' already defined in scope")
            ELSE params([Q EXCEPT !.symbols =
                            Put(@, node.parameters[k].name,
                                node.parameters[k].type_)],
                        k + 1)
        RECURSIVE stmts(_, _)
        stmts(Q, k) ==
            IF Q.err # "" \/ k > Len(node.body) THEN Q
            ELSE stmts(check(Q, node.body[k]).p, k + 1)
    IN  IF node.name \in DOMAIN T.functions
        THEN R(TypeError(T, "Function '" \o node.name
                                \o "' already defined"), None)
        ELSE The({
            IF T3.err # "" THEN R(T3, None)
            ELSE R([T3 EXCEPT !.current_function = None], node.return_type)
            : T3 \in {stmts(params([T EXCEPT
                                       !.functions = Put(@, node.name, node),
                                       !.current_function = Some(node.name)],
                                   1),
                            1)} })

\* a check_FunctionDef that enters the function in the table after its body
\* was checked
check_FunctionDef_late(T, node) ==
    LET RECURSIVE params(_, _)
        params(Q, k) ==
            IF Q.err # "" \/ k > Len(node.parameters) THEN Q
            ELSE IF node.parameters[k].name \in DOMAIN Q.symbols
            THEN TypeError(Q, "Parameter '" \o node.parameters[k].name
                                  \o "' already defined in scope")
            ELSE params([Q EXCEPT !.symbols =
                            Put(@, node.parameters[k].name,
                                node.parameters[k].type_)],
                        k + 1)
        RECURSIVE stmts(_, _)
        stmts(Q, k) ==
            IF Q.err # "" \/ k > Len(node.body) THEN Q
            ELSE stmts(check(Q, node.body[k]).p, k + 1)
    IN  IF node.name \in DOMAIN T.functions
        THEN R(TypeError(T, "Function '" \o node.name
                                \o "' already defined"), None)
        ELSE The({
            IF T3.err # "" THEN R(T3, None)
            ELSE R([T3 EXCEPT !.symbols = T.symbols,
                              !.functions = Put(@, node.name, node),
                              !.current_function = None],
                   node.return_type)
            : T3 \in {stmts(params([T EXCEPT
                                       !.current_function = Some(node.name)],
                                   1),
                            1)} })

\* TypeChecker.check_FunctionDef
check_FunctionDef(T, node) ==
    LET RECURSIVE params(_, _)
        params(Q, k) ==
            IF Q.err # "" \/ k > Len(node.parameters) THEN Q
            ELSE IF node.parameters[k].name \in DOMAIN Q.symbols
            THEN TypeError(Q, "Parameter '" \o node.parameters[k].name
                                  \o "' already defined in scope")
            ELSE params([Q EXCEPT !.symbols =
                            Put(@, node.parameters[k].name,
                                node.parameters[k].type_)],
                        k + 1)
        RECURSIVE stmts(_, _)
        stmts(Q, k) ==
            IF Q.err # "" \/ k > Len(node.body) THEN Q
            ELSE stmts(check(Q, node.body[k]).p, k + 1)
    IN  IF node.name \in DOMAIN T.functions
        THEN R(TypeError(T, "Function '" \o node.name
                                \o "' already defined"), None)
        ELSE The({
            IF T3.err # "" THEN R(T3, None)
            \* self.symbols = old_symbols; self._current_function = None
            ELSE R([T3 EXCEPT !.symbols = T.symbols,
                              !.current_function = None],
                   node.return_type)
            : T3 \in {stmts(params([T EXCEPT
                                       !.functions = Put(@, node.name, node),
                                       !.current_function = Some(node.name)],
                                   1),
                            1)} })

\* TypeChecker.check_ArrayLiteral
check_ArrayLiteral(T, node) ==
    LET RECURSIVE elems(_, _, _)
        elems(Q, k, types) ==
            IF Q.err # "" \/ k > Len(node.elements) THEN R(Q, types)
            ELSE The({ elems(r.p, k + 1, Append(types, r.n))
                       : r \in {check(Q, node.elements[k])} })
        \* the loop "for et in element_types[1:]"
        RECURSIVE rest(_, _, _)
        rest(Q, element_types, k) ==
            IF Q.err # "" \/ k > Len(element_types) THEN Q
            ELSE rest(require_compatible(
                          Q, element_types[1], element_types[k],
                          "Array literal element type mismatch"),
                      element_types, k + 1)
    IN  IF Len(node.elements) = 0
        THEN R(TypeError(T, "Empty array literals are not supported or "
                                \o "need explicit type annotation"), None)
        ELSE The({ The({
            IF T2.err # "" THEN R(T2, None)
            ELSE IF IsNone(element_types.n[1])
            THEN R(AttributeError(T2,
                       "'NoneType' object has no attribute 'name'"), None)
            ELSE R(T2, Some(TypeOf(Val(element_types.n[1]).name, 0, TRUE,
                               Some(BigNat(NatDigits(Len(node.elements)))))))
            : T2 \in {rest(element_types.p, element_types.n, 2)} })
            : element_types \in {elems(T, 1, <<>>)} })

\* TypeChecker.check_PointerLiteral
check_PointerLiteral(T, node) ==
    IF node.address.t = "int" THEN R(T, Some(TypeOf("void", 1, FALSE, None)))
    ELSE The({
        IF addr_type.p.err # "" THEN R(addr_type.p, None)
        ELSE IF IsNone(addr_type.n)
        THEN R(AttributeError(addr_type.p,
                   "'NoneType' object has no attribute 'name'"), None)
        ELSE R(addr_type.p,
               Some(TypeOf(Val(addr_type.n).name,
                           Val(addr_type.n).pointer_level + 1, FALSE, None)))
        : addr_type \in {check(T, node.address.v)} })

\* TypeChecker.check_Dereference
check_Dereference(T, node) ==
    The({
        IF var_type.p.err # "" THEN R(var_type.p, None)
        ELSE IF IsNone(var_type.n)
        THEN R(AttributeError(var_type.p,
                   "'NoneType' object has no attribute 'pointer_level'"),
               None)
        ELSE IF Val(var_type.n).pointer_level = 0
        THEN R(TypeError(var_type.p, "Cannot dereference non-pointer type "
                             \o TypeRepr(Val(var_type.n))), None)
        ELSE IF Val(var_type.n).pointer_level = 1
                   /\ Val(var_type.n).name = "void"
        THEN R(TypeError(var_type.p, "Cannot dereference pointer to void"),
               None)
        ELSE R(var_type.p,
               Some(TypeOf(Val(var_type.n).name,
                           Val(var_type.n).pointer_level - 1, FALSE, None)))
        : var_type \in {check(T, node.expr)} })

\* TypeChecker.check_Cast
check_Cast(T, node) ==
    The({ IF r.p.err # "" THEN R(r.p, None)
          ELSE R(r.p, Some(node.target_type))
          : r \in {check(T, node.expr)} })

\* TypeChecker.check on a node: check_<class name>
check(T, node) ==
    IF T.err # "" THEN R(T, None)
    ELSE IF node.cls = "NumberLiteral" THEN check_NumberLiteral(T, node)
    ELSE IF node.cls = "StringLiteral" THEN R(T, Some(Type("string")))
    ELSE IF node.cls = "CharLiteral" THEN R(T, Some(Type("char")))
    ELSE IF node.cls = "BooleanLiteral" THEN R(T, Some(Type("bool")))
    ELSE IF node.cls = "VariableAccess" THEN check_VariableAccess(T, node)
    ELSE IF node.cls = "Assignment" THEN check_Assignment(T, node)
    ELSE IF node.cls = "VariableDef" THEN check_VariableDef(T, node)
    ELSE IF node.cls = "BinaryOp" THEN check_BinaryOp(T, node)
    ELSE IF node.cls = "FunctionCall" THEN check_FunctionCall(T, node)
    ELSE IF node.cls = "ReturnNode" THEN check_ReturnNode(T, node)
    ELSE IF node.cls = "Parameter"
    THEN R(AttributeError(T, "'Parameter' object has no attribute 'type'"),
           None)
    ELSE IF node.cls = "ExternDecl" THEN check_ExternDecl(T, node)
    ELSE IF node.cls = "FunctionDef" THEN check_FunctionDef(T, node)
    ELSE IF node.cls = "ArrayLiteral" THEN check_ArrayLiteral(T, node)
    ELSE IF node.cls = "ImportNode" THEN R(T, Some(Type("void")))
    ELSE IF node.cls = "AsmBlock" THEN R(T, Some(Type("void")))
    ELSE IF node.cls = "PointerLiteral" THEN check_PointerLiteral(T, node)
    ELSE IF node.cls = "Dereference" THEN check_Dereference(T, node)
    ELSE IF node.cls = "Cast" THEN check_Cast(T, node)
    ELSE R(TypeError(T, "No type checker implemented for " \o node.cls),
           None)

-----------------------------------------------------------------------------
(* codegen.py: class CodeGen.  A generator is the record of its            *)
(* attributes, with err and msg for a raised exception; output is the      *)
(* list of emitted lines.  A dict is a function (var_offsets) or, where    *)
(* its insertion order is read, a sequence of <<key, value>> pairs         *)
(* (string_literals).                                                      *)

\* CodeGen.__init__
CodeGen ==
    [output |-> <<>>, label_count |-> 0, string_literals |-> <<>>,
     string_label_count |-> 0, current_function |-> None,
     var_offsets |-> <<>>, stack_size |-> 0, global_vars |-> <<>>,
     externs |-> <<>>, global_symbols |-> <<>>, err |-> "", msg |-> ""]

\* raise CodegenException(msg): its __init__ prints the message and calls
\* exit(1)
CodegenException(G, m) == [G EXCEPT !.err = "CodegenException", !.msg = m]

\* a KeyError raised by a dict lookup
KeyError(G, m) == [G EXCEPT !.err = "KeyError", !.msg = m]

\* str(n) of a machine integer
IntStr(n) == IF n < 0 THEN "-" \o NatStr(0 - n) ELSE NatStr(n)

\* the label of string s in string_literals, None when s is not a key
LabelOf(G, s) ==
    LET hits == SelectSeq(G.string_literals, LAMBDA e : e[1] = s)
    IN  IF Len(hits) = 0 THEN None ELSE Some(hits[1][2])

\* a get_string_label that makes a label for every use
get_string_label_fresh(G, s) ==
    LET n == G.string_label_count + 1
        label == "LC" \o NatStr(n)
    IN  R([G EXCEPT !.string_label_count = n,
                    !.string_literals = Append(@, <<s, label>>)],
          label)

\* CodeGen.get_string_label: [p, n], the generator afterwards and the label
get_string_label(G, s) ==
    IF IsNone(LabelOf(G, s))
    THEN LET n == G.string_label_count + 1
             label == "LC" \o NatStr(n)
         IN  R([G EXCEPT !.string_label_count = n,
                         !.string_literals = Append(@, <<s, label>>)],
               label)
    ELSE R(G, Val(LabelOf(G, s)))

\* an emit that drops the "pop rax" of a binary operation
emit_without_pop(G, instruction) ==
    IF instruction = "pop rax" THEN G
    ELSE [G EXCEPT !.output = Append(@, "    " \o instruction)]

\* CodeGen.emit with the default indent of 4
emit(G, instruction) ==
    [G EXCEPT !.output = Append(@, "    " \o instruction)]

\* CodeGen.emit_section
emit_section(G, section_name) ==
    [G EXCEPT !.output = Append(@, "section ." \o section_name)]

\* CodeGen.emit_label
emit_label(G, label) == [G EXCEPT !.output = Append(@, label \o ":")]

\* emit() of each line of a list in turn
RECURSIVE emit_all(_, _)
emit_all(G, instrs) ==
    IF Len(instrs) = 0 THEN G
    ELSE emit_all(emit(G, Head(instrs)), Tail(instrs))

\* CodeGen.prologue
prologue(G) ==
    LET G1 == emit(emit(G, "push rbp"), "mov rbp, rsp")
        aligned_size == ((G.stack_size + 15) \div 16) * 16
    IN  IF G.stack_size > 0 /\ aligned_size # 0
        THEN [emit(G1, "sub rsp, " \o IntStr(aligned_size))
                 EXCEPT !.stack_size = aligned_size]
        ELSE G1

\* CodeGen.epilogue
epilogue(G) == emit(emit(emit(G, "mov rsp, rbp"), "pop rbp"), "ret")

\* the digits of base 16, with int(c, 16)
HexChars ==
    DigitChars \cup {"a", "b", "c", "d", "e", "f", "A", "B", "C", "D", "E", "F"}

HexVal(c) ==
    IF c \in DigitChars THEN Ord(c) - Ord("0")
    ELSE IF c \in LowerChars THEN Ord(c) - Ord("a") + 10
    ELSE Ord(c) - Ord("A") + 10

RECURSIVE HexNum(_)
HexNum(cs) ==
    IF Len(cs) = 0 THEN 0
    ELSE 16 * HexNum(SubSeq(cs, 1, Len(cs) - 1)) + HexVal(cs[Len(cs)])

\* the code points of the escapes that stand for one character
SimpleEscapes ==
    ("\\" :> 92) @@ ("'" :> 39) @@ ("\"" :> 34) @@ ("a" :> 7) @@ ("b" :> 8)
    @@ ("f" :> 12) @@ ("n" :> 10) @@ ("r" :> 13) @@ ("t" :> 9) @@ ("v" :> 11)

\* the number of hexadecimal digits after \x, \u and \U
HexEscapes == ("x" :> 2) @@ ("u" :> 4) @@ ("U" :> 8)

\* s.encode('utf-8').decode('unicode_escape') of an ASCII string: [err, n]
\* with n the code points (a named character \N{...} is looked up in no
\* table here and counts as unknown)
RECURSIVE unicode_escape(_)
unicode_escape(cs) ==
    LET ok(codes, rest) ==
            LET r == unicode_escape(rest)
            IN  IF r.err # "" THEN r ELSE [err |-> "", n |-> codes \o r.n]
        bad == [err |-> "UnicodeDecodeError", n |-> <<>>]
        c == cs[2]
        octal == {"0", "1", "2", "3", "4", "5", "6", "7"}
        olen == IF Len(cs) >= 3 /\ cs[3] \in octal
                THEN (IF Len(cs) >= 4 /\ cs[4] \in octal THEN 3 ELSE 2)
                ELSE 1
        oval(k) == IF k = 1 THEN HexVal(cs[2])
                   ELSE IF k = 2 THEN 8 * HexVal(cs[2]) + HexVal(cs[3])
                   ELSE 64 * HexVal(cs[2]) + 8 * HexVal(cs[3]) + HexVal(cs[4])
        hlen == HexEscapes[c]
        hex == SubSeq(cs, 3, 2 + hlen)
    IN  IF Len(cs) = 0 THEN [err |-> "", n |-> <<>>]
        ELSE IF cs[1] # "\\" THEN ok(<<Ord(cs[1])>>, Tail(cs))
        ELSE IF Len(cs) = 1 THEN bad
        ELSE IF c \in DOMAIN SimpleEscapes
        THEN ok(<<SimpleEscapes[c]>>, SubSeq(cs, 3, Len(cs)))
        ELSE IF c = "\n" THEN ok(<<>>, SubSeq(cs, 3, Len(cs)))
        ELSE IF c \in octal
        THEN ok(<<oval(olen)>>, SubSeq(cs, 2 + olen, Len(cs)))
        ELSE IF c \in DOMAIN HexEscapes
        THEN IF Len(cs) < 2 + hlen \/ ~(Range(hex) \subseteq HexChars)
             THEN bad
             ELSE IF hlen = 8 /\ (hex[1] # "0" \/ hex[2] # "0"
                                    \/ HexNum(SubSeq(hex, 3, 8)) > 1114111)
             THEN bad
             ELSE ok(<<HexNum(IF hlen = 8 THEN SubSeq(hex, 3, 8) ELSE hex)>>,
                     SubSeq(cs, 3 + hlen, Len(cs)))
        ELSE IF c = "N" THEN bad
        ELSE ok(<<92, Ord(c)>>, SubSeq(cs, 3, Len(cs)))

\* .encode('latin1') of the decoded string: [err, n] with n the bytes
encode_latin1(codes) ==
    IF \E i \in 1..Len(codes) : codes[i] > 255
    THEN [err |-> "UnicodeEncodeError", n |-> <<>>]
    ELSE [err |-> "", n |-> codes]

\* ', '.join(str(b) for b in interpreted)
RECURSIVE ascii_bytes(_)
ascii_bytes(bs) ==
    IF Len(bs) = 0 THEN ""
    ELSE IF Len(bs) = 1 THEN NatStr(Head(bs))
    ELSE NatStr(Head(bs)) \o ", " \o ascii_bytes(Tail(bs))

\* op_map of _codegen_binary_op: the instructions of each operator it holds
op_map ==
    ("PLUS" :> <<"add rax, rbx">>)
    @@ ("MINUS" :> <<"sub rax, rbx">>)
    @@ ("STAR" :> <<"imul rax, rbx">>)
    @@ ("SLASH" :> <<"cqo", "idiv rbx">>)
    @@ ("EQ" :> <<"cmp rax, rbx", "sete al", "movzx rax, al">>)
    @@ ("NOT_EQ" :> <<"cmp rax, rbx", "setne al", "movzx rax, al">>)
    @@ ("LT" :> <<"cmp rax, rbx", "setl al", "movzx rax, al">>)
    @@ ("LE" :> <<"cmp rax, rbx", "setle al", "movzx rax, al">>)
    @@ ("GT" :> <<"cmp rax, rbx", "setg al", "movzx rax, al">>)
    @@ ("GE" :> <<"cmp rax, rbx", "setge al", "movzx rax, al">>)
    @@ ("PERCENT" :> <<"cqo", "idiv rbx", "mov rax, rdx">>)

\* arg_regs of _codegen_function_call, param_regs of _codegen_function
arg_regs == <<"rdi", "rsi", "rdx", "rcx", "r8", "r9">>

RECURSIVE _codegen_expression(_, _, _)

\* a call site that never pads the stack
no_adjustment(stack_args) == 0

\* _codegen_function_call: "adjustment = 0; if (stack_args % 2) != 0:
\* adjustment = 8"
call_adjustment(stack_args) == IF stack_args % 2 # 0 THEN 8 ELSE 0

\* CodeGen._codegen_function_call
_codegen_function_call(G, node) ==
    LET argc == Len(node.arguments)
        stack_args == IF argc > 6 THEN argc - 6 ELSE 0
        adjustment == call_adjustment(stack_args)
        \* "if c: self.emit(instruction)"
        emit_if(c, H, instruction) == IF c THEN emit(H, instruction) ELSE H
        \* for i in reversed(range(6, argc))
        RECURSIVE pushes(_, _)
        pushes(H, i) ==
            IF H.err # "" \/ i <= 6 THEN H
            ELSE The({ pushes(IF H1.err # "" THEN H1
                              ELSE emit(H1, "push rax"), i - 1)
                       : H1 \in {_codegen_expression(H, node.arguments[i],
                                                     "rax")} })
        \* for i in range(min(6, argc))
        RECURSIVE regs(_, _)
        regs(H, i) ==
            IF H.err # "" \/ i > argc \/ i > 6 THEN H
            ELSE The({ regs(IF H1.err # "" THEN H1
                            ELSE emit(H1, "mov " \o arg_regs[i] \o ", rax"),
                            i + 1)
                       : H1 \in {_codegen_expression(H, node.arguments[i],
                                                     "rax")} })
    IN  The({
            IF G2.err # "" THEN G2
            ELSE emit_if(adjustment # 0,
                     emit_if(stack_args > 0,
                         emit(emit(G2, "xor rax, rax"), "call " \o node.name),
                         "add rsp, " \o IntStr(stack_args * 8)),
                     "add rsp, " \o IntStr(adjustment))
            : G2 \in {regs(pushes(emit_if(adjustment # 0, G,
                                          "sub rsp, " \o IntStr(adjustment)),
                                  argc),
                           1)} })

\* CodeGen._codegen_binary_op
_codegen_binary_op(G, node, target_reg) ==
    The({
        IF G1.err # "" THEN G1
        ELSE The({
            IF G2.err # "" THEN G2
            ELSE The({
                IF node.op \notin DOMAIN op_map
                THEN CodegenException(
                         G3, "Unsupported binary operator TokenType."
                                 \o node.op)
                ELSE IF target_reg # "rax"
                THEN emit(emit_all(G3, op_map[node.op]),
                          "mov " \o target_reg \o ", rax")
                ELSE emit_all(G3, op_map[node.op])
                : G3 \in {emit(emit(G2, "mov rbx, rax"), "pop rax")} })
            : G2 \in {_codegen_expression(emit(G1, "push rax"), node.right,
                                          "rax")} })
        : G1 \in {_codegen_expression(G, node.left, "rax")} })

\* CodeGen._codegen_expression (the message about .len without the grave
\* accents the source puts around it)
_codegen_expression(G, node, target_reg) ==
    IF G.err # "" THEN G
    ELSE IF node.cls = "NumberLiteral"
    THEN emit(G, "mov " \o target_reg \o ", " \o ValueStr(node.value))
    ELSE IF node.cls = "StringLiteral"
    THEN The({ emit(label.p, "lea " \o target_reg \o ", [rel " \o label.n
                                 \o "]")
               : label \in {get_string_label(G, node.value)} })
    ELSE IF node.cls = "BooleanLiteral"
    THEN emit(G, "mov " \o target_reg \o ", "
                     \o (IF ValueIs(node.value, "true") THEN "1" ELSE "0"))
    ELSE IF node.cls = "VariableAccess"
    THEN IF Len(node.parts) = 1
         THEN IF ~IsNone(G.current_function)
                 /\ node.parts[1].v \in DOMAIN G.var_offsets
              THEN emit(G, "mov " \o target_reg \o ", [rbp"
                               \o IntStr(G.var_offsets[node.parts[1].v])
                               \o "]")
              ELSE emit(G, "mov " \o target_reg \o ", [" \o node.parts[1].v
                               \o "]")
         ELSE IF Len(node.parts) = 2
         THEN IF ValueIs(node.parts[2], "len")
              THEN CodegenException(G, ".len property is not supported")
              ELSE CodegenException(G, "Struct member access not implemented")
         ELSE CodegenException(G, "Unsupported VariableAccess parts length")
    ELSE IF node.cls = "BinaryOp" THEN _codegen_binary_op(G, node, target_reg)
    ELSE IF node.cls = "FunctionCall"
    THEN The({ IF G1.err = "" /\ target_reg # "rax"
               THEN emit(G1, "mov " \o target_reg \o ", rax")
               ELSE G1
               : G1 \in {_codegen_function_call(G, node)} })
    ELSE CodegenException(G, "Unsupported expression node type: " \o node.cls)

\* CodeGen._codegen_variable_def
_codegen_variable_def(G, node) ==
    IF IsNone(G.current_function) \/ IsNone(node.value) THEN G
    ELSE The({
        IF G1.err # "" THEN G1
        ELSE IF node.name \notin DOMAIN G1.var_offsets
        THEN KeyError(G1, node.name)
        ELSE emit(G1, "mov [rbp" \o IntStr(G1.var_offsets[node.name])
                          \o "], rax")
        : G1 \in {_codegen_expression(G, Val(node.value), "rax")} })

\* CodeGen._codegen_return
_codegen_return(G, node) ==
    The({ IF G1.err # "" THEN G1 ELSE epilogue(G1)
          : G1 \in {IF IsNone(node.expression) THEN emit(G, "mov rax, 0")
                    ELSE _codegen_expression(G, Val(node.expression),
                                             "rax")} })

\* CodeGen._codegen_assignment: a name that is a str has the attribute
\* "index" (the method str.index), a name that is a node has none and is
\* no key of var_offsets
_codegen_assignment(G, node) ==
    IF node.name.t = "str"
    THEN CodegenException(G, "Array indexing is not supported")
    ELSE The({ IF G1.err # "" THEN G1 ELSE KeyError(G1, node.name.v.cls)
               : G1 \in {_codegen_expression(G, node.value, "rax")} })

RECURSIVE _codegen_dispatch(_, _)

\* CodeGen._codegen_function
_codegen_function(G, node) ==
    LET \* the loop over the VariableDef statements of the body: <<H, offset>>
        RECURSIVE locals(_, _, _)
        locals(H, k, offset) ==
            IF k > Len(node.body) THEN <<H, offset>>
            ELSE IF node.body[k].cls = "VariableDef"
            THEN locals([H EXCEPT !.var_offsets =
                            Put(@, node.body[k].name, 0 - (offset + 8))],
                        k + 1, offset + 8)
            ELSE locals(H, k + 1, offset)
        \* "if off is None:" of the loop over the parameters, offset being
        \* the offset after "offset += 8"
        slot(H, name, offset, aligned_stack) ==
            IF aligned_stack # offset
            THEN [emit(H, "sub rsp, " \o IntStr(aligned_stack - offset))
                     EXCEPT !.var_offsets = Put(@, name, 0 - offset),
                            !.stack_size = aligned_stack]
            ELSE [H EXCEPT !.var_offsets = Put(@, name, 0 - offset),
                           !.stack_size = offset]
        \* the loop over the parameters
        RECURSIVE params(_, _, _)
        params(H, i, offset) ==
            IF H.err # "" \/ i > Len(node.parameters) THEN H
            ELSE IF i > 6
            THEN CodegenException(H, "More than 6 parameters not supported")
            ELSE IF node.parameters[i].name \in DOMAIN H.var_offsets
            THEN params(emit(H, "mov [rbp"
                                 \o IntStr(H.var_offsets[
                                               node.parameters[i].name])
                                 \o "], " \o arg_regs[i]),
                        i + 1, offset)
            ELSE params(emit(slot(H, node.parameters[i].name, offset + 8,
                                  ((offset + 8 + 15) \div 16) * 16),
                             "mov [rbp" \o IntStr(0 - (offset + 8)) \o "], "
                                 \o arg_regs[i]),
                        i + 1, offset + 8)
        RECURSIVE body(_, _)
        body(H, k) ==
            IF H.err # "" \/ k > Len(node.body) THEN H
            ELSE body(_codegen_dispatch(H, node.body[k]), k + 1)
        \* "if not any(isinstance(s, ReturnNode) for s in node.body):
        \* self.epilogue()" and the reset of the three attributes
        leave(H) ==
            [(IF \E k \in 1..Len(node.body) : node.body[k].cls = "ReturnNode"
              THEN H ELSE epilogue(H))
                EXCEPT !.current_function = None, !.var_offsets = <<>>,
                       !.stack_size = 0]
    IN  The({ The({
            IF G3.err # "" THEN G3 ELSE leave(G3)
            : G3 \in {body(params(prologue([l[1] EXCEPT !.stack_size = l[2]]),
                                  1, l[2]),
                           1)} })
            : l \in {locals(emit_label(
                                [G EXCEPT
                                    !.current_function = Some(node.name),
                                    !.var_offsets = <<>>, !.stack_size = 0],
                                node.name),
                            1, 0)} })

\* CodeGen._codegen_dispatch
_codegen_dispatch(G, node) ==
    IF G.err # "" THEN G
    ELSE IF node.cls = "ExternDecl" THEN G
    ELSE IF node.cls = "FunctionDef" THEN _codegen_function(G, node)
    ELSE IF node.cls = "VariableDef" THEN _codegen_variable_def(G, node)
    ELSE IF node.cls = "ReturnNode" THEN _codegen_return(G, node)
    ELSE IF node.cls = "FunctionCall" THEN _codegen_function_call(G, node)
    ELSE IF node.cls = "Assignment" THEN _codegen_assignment(G, node)
    ELSE IF node.cls = "BinaryOp" THEN _codegen_binary_op(G, node, "rax")
    ELSE IF node.cls \in {"NumberLiteral", "StringLiteral", "BooleanLiteral",
                          "VariableAccess"}
    THEN _codegen_expression(G, node, "rax")
    ELSE CodegenException(G, "Codegen for " \o node.cls \o " not implemented")

\* the names of the nodes of a list
Names(ns) == [i \in 1..Len(ns) |-> ns[i].name]

\* CodeGen.generate: the generator afterwards; its output is the list of
\* lines that the returned text "\n".join(self.output) holds
generate(G, ast_nodes) ==
    LET \* "for x in names: self.emit(word x)"
        RECURSIVE directives(_, _, _)
        directives(H, word, names) ==
            IF Len(names) = 0 THEN H
            ELSE directives(emit(H, word \o " " \o Head(names)), word,
                            Tail(names))
        \* the entries of section .data
        RECURSIVE data(_, _)
        data(H, k) ==
            IF k > Len(H.global_vars) THEN H
            ELSE IF IsNone(H.global_vars[k].value) THEN data(H, k + 1)
            ELSE IF Val(H.global_vars[k].value).cls = "NumberLiteral"
            THEN data(emit(H, H.global_vars[k].name \o ": dq "
                       \o ValueStr(Val(H.global_vars[k].value).value)),
                      k + 1)
            ELSE IF Val(H.global_vars[k].value).cls = "StringLiteral"
            THEN The({ data(emit(str_label.p, H.global_vars[k].name
                                     \o ": dq " \o str_label.n), k + 1)
                       : str_label \in {get_string_label(
                             H, Val(H.global_vars[k].value).value)} })
            ELSE data(emit(H, H.global_vars[k].name \o ": dq 0"), k + 1)
        \* the entries of section .bss
        RECURSIVE bss(_, _)
        bss(H, uninit_globals) ==
            IF Len(uninit_globals) = 0 THEN H
            ELSE bss(emit(H, Head(uninit_globals).name \o ": resq 1"),
                     Tail(uninit_globals))
        \* "if self.global_vars:" with both sections
        globals(H, uninit_globals) ==
            IF Len(H.global_vars) = 0 THEN H
            ELSE IF Len(uninit_globals) = 0
            THEN data(emit_section(H, "data"), 1)
            ELSE bss(emit_section(data(emit_section(H, "data"), 1), "bss"),
                     uninit_globals)
        \* the loop over the top-level nodes in section .text
        RECURSIVE text(_, _)
        text(H, k) ==
            IF H.err # "" \/ k > Len(ast_nodes) THEN H
            ELSE IF ast_nodes[k].cls = "ExternDecl"
                    \/ (ast_nodes[k].cls = "VariableDef"
                            /\ IsNone(H.current_function))
            THEN text(H, k + 1)
            ELSE text(_codegen_dispatch(H, ast_nodes[k]), k + 1)
        \* the entries of section .rodata
        RECURSIVE rodata(_, _)
        rodata(H, k) ==
            IF H.err # "" \/ k > Len(H.string_literals) THEN H
            ELSE The({
                IF decoded.err # ""
                THEN [H EXCEPT !.err = decoded.err,
                               !.msg = "'unicodeescape' codec can't decode"]
                ELSE The({
                    IF interpreted.err # ""
                    THEN CodegenException(H,
                             "Invalid character in string literal: "
                                 \o Str(H.string_literals[k][1]))
                    ELSE rodata(emit(H, H.string_literals[k][2] \o ": db "
                                         \o ascii_bytes(interpreted.n) \o ", 0"),
                                k + 1)
                    : interpreted \in {encode_latin1(decoded.n)} })
                : decoded \in {unicode_escape(H.string_literals[k][1])} })
    IN  The({ The({
            IF G4.err # "" \/ Len(G4.string_literals) = 0 THEN G4
            ELSE rodata(emit_section(G4, "rodata"), 1)
            : G4 \in {text(emit_section(
                               globals(
                                   directives(
                                       directives(emit(G1, "default rel"),
                                                  "global",
                                                  G1.global_symbols),
                                       "extern", G1.externs),
                                   SelectSeq(G1.global_vars,
                                             LAMBDA g : IsNone(g.value))),
                               "text"),
                           1)} })
            \* the first loop over ast_nodes
            : G1 \in {[G EXCEPT
                 !.global_vars = @ \o SelectSeq(ast_nodes,
                     LAMBDA n : n.cls = "VariableDef"),
                 !.global_symbols = @ \o Names(SelectSeq(ast_nodes,
                     LAMBDA n : n.cls \in {"VariableDef", "FunctionDef"})),
                 !.externs = @ \o Names(SelectSeq(ast_nodes,
                     LAMBDA n : n.cls = "ExternDecl"))]} })

-----------------------------------------------------------------------------
(* The inputs of the driver: source files and the module files of lib/.    *)

\* scenario S1:
\*   fn main() -> int { return 42; }
S1Source ==
    <<"f", "n", " ", "m", "a", "i", "n", "(", ")", " ", "-", ">", " ", "i",
      "n", "t", " ", "{", " ", "r", "e", "t", "u", "r", "n", " ", "4", "2",
      ";", " ", "}">>

\* scenario S2:
\*   extern puts(u8*) -> int; fn main() -> int { puts("hi"); return 0; }
S2Source ==
    <<"e", "x", "t", "e", "r", "n", " ", "p", "u", "t", "s", "(", "u", "8",
      "*", ")", " ", "-", ">", " ", "i", "n", "t", ";", " ", "f", "n", " ",
      "m", "a", "i", "n", "(", ")", " ", "-", ">", " ", "i", "n", "t", " ",
      "{", " ", "p", "u", "t", "s", "(", "\"", "h", "i", "\"", ")", ";",
      " ", "r", "e", "t", "u", "r", "n", " ", "0", ";", " ", "}">>

\* scenario S3:
\*   fn add(a: int, b: int) -> int { return a + b; }
S3Source ==
    <<"f", "n", " ", "a", "d", "d", "(", "a", ":", " ", "i", "n", "t", ",",
      " ", "b", ":", " ", "i", "n", "t", ")", " ", "-", ">", " ", "i", "n",
      "t", " ", "{", " ", "r", "e", "t", "u", "r", "n", " ", "a", " ", "+",
      " ", "b", ";", " ", "}">>

\* scenario S4:
\*   var g: int = 7;
S4Source ==
    <<"v", "a", "r", " ", "g", ":", " ", "i", "n", "t", " ", "=", " ", "7",
      ";">>

\* scenario S5:
\*   fn f() { var x: u8 = 300; }
S5Source ==
    <<"f", "n", " ", "f", "(", ")", " ", "{", " ", "v", "a", "r", " ", "x",
      ":", " ", "u", "8", " ", "=", " ", "3", "0", "0", ";", " ", "}">>

\* scenario S6, with lib/a/b.sw:
\*   import a.b : foo;
S6Source ==
    <<"i", "m", "p", "o", "r", "t", " ", "a", ".", "b", " ", ":", " ", "f",
      "o", "o", ";">>

\* an assignment to a global variable:
\*   var g: int = 1; fn f() { g = 2; }
GlobalAssignSource ==
    <<"v", "a", "r", " ", "g", ":", " ", "i", "n", "t", " ", "=", " ", "1",
      ";", " ", "f", "n", " ", "f", "(", ")", " ", "{", " ", "g", " ", "=",
      " ", "2", ";", " ", "}">>

\* an assignment to a dereference:
\*   fn f(b: u8*) { *b = 3; }
DerefAssignSource ==
    <<"f", "n", " ", "f", "(", "b", ":", " ", "u", "8", "*", ")", " ", "{",
      " ", "*", "b", " ", "=", " ", "3", ";", " ", "}">>

\* a string literal that does not end:
\*   var s: u8* = "hi;
UnterminatedSource ==
    <<"v", "a", "r", " ", "s", ":", " ", "u", "8", "*", " ", "=", " ", "\"",
      "h", "i", ";">>

\* a function without a name:
\*   fn (
UnexpectedTokenSource ==
    <<"f", "n", " ", "(">>

\* a listed function that calls another function of its module:
\*   import m : a;
ClosureSource ==
    <<"i", "m", "p", "o", "r", "t", " ", "m", " ", ":", " ", "a", ";">>

\* one module imported by two import statements:
\*   import q; import q;
TwiceSource ==
    <<"i", "m", "p", "o", "r", "t", " ", "q", ";", " ", "i", "m", "p", "o",
      "r", "t", " ", "q", ";">>

\* a module imported through another module, then directly:
\*   import p; import q;
TransitiveSource ==
    <<"i", "m", "p", "o", "r", "t", " ", "p", ";", " ", "i", "m", "p", "o",
      "r", "t", " ", "q", ";">>

\* a module imported directly, then through another module:
\*   import q; import p;
DirectFirstSource ==
    <<"i", "m", "p", "o", "r", "t", " ", "q", ";", " ", "i", "m", "p", "o",
      "r", "t", " ", "p", ";">>

\* a read of a variable of an imported module:
\*   import q; fn f() -> int { return qv; }
ExternVarSource ==
    <<"i", "m", "p", "o", "r", "t", " ", "q", ";", " ", "f", "n", " ", "f",
      "(", ")", " ", "-", ">", " ", "i", "n", "t", " ", "{", " ", "r", "e",
      "t", "u", "r", "n", " ", "q", "v", ";", " ", "}">>

\* an import of a module that has no file:
\*   import nope;
MissingModuleSource ==
    <<"i", "m", "p", "o", "r", "t", " ", "n", "o", "p", "e", ";">>

\* an import of a module that does not parse:
\*   import bad;
BadModuleSource ==
    <<"i", "m", "p", "o", "r", "t", " ", "b", "a", "d", ";">>

\* the sources the driver is run on
Sources ==
    {S1Source, S2Source, S3Source, S4Source, S5Source, S6Source,
     GlobalAssignSource, DerefAssignSource, UnterminatedSource,
     UnexpectedTokenSource, ClosureSource, TwiceSource, TransitiveSource,
     DirectFirstSource, ExternVarSource, MissingModuleSource,
     BadModuleSource}

\* the module files below lib/: path :> text
\* lib/a/b.sw:
\*   fn foo() -> int {}
\*   var bar: int = 1;
Lib_a_b ==
    <<"f", "n", " ", "f", "o", "o", "(", ")", " ", "-", ">", " ", "i", "n",
      "t", " ", "{", "}", "\n", "v", "a", "r", " ", "b", "a", "r", ":", " ",
      "i", "n", "t", " ", "=", " ", "1", ";", "\n">>

\* lib/m.sw:
\*   fn a() -> int { return b(); }
\*   fn b() -> int { return 1; }
Lib_m ==
    <<"f", "n", " ", "a", "(", ")", " ", "-", ">", " ", "i", "n", "t", " ",
      "{", " ", "r", "e", "t", "u", "r", "n", " ", "b", "(", ")", ";", " ",
      "}", "\n", "f", "n", " ", "b", "(", ")", " ", "-", ">", " ", "i", "n",
      "t", " ", "{", " ", "r", "e", "t", "u", "r", "n", " ", "1", ";", " ",
      "}", "\n">>

\* lib/p.sw:
\*   import q;
\*   fn pf() {}
Lib_p ==
    <<"i", "m", "p", "o", "r", "t", " ", "q", ";", "\n", "f", "n", " ", "p",
      "f", "(", ")", " ", "{", "}", "\n">>

\* lib/q.sw:
\*   fn qf() {}
\*   var qv: int = 1;
Lib_q ==
    <<"f", "n", " ", "q", "f", "(", ")", " ", "{", "}", "\n", "v", "a", "r",
      " ", "q", "v", ":", " ", "i", "n", "t", " ", "=", " ", "1", ";", "\n">>

\* lib/bad.sw:
\*   fn (
Lib_bad ==
    <<"f", "n", " ", "(", "\n">>

LibFiles ==
    ("lib/a/b.sw" :> Lib_a_b)
    @@ ("lib/m.sw" :> Lib_m)
    @@ ("lib/p.sw" :> Lib_p)
    @@ ("lib/q.sw" :> Lib_q)
    @@ ("lib/bad.sw" :> Lib_bad)

-----------------------------------------------------------------------------
(* sweet.py: class Compiler.  compile_to_object (output format "bin") and  *)
(* process_non_binary_output (the other formats) run the stages one after  *)
(* the other; each stage is one action.  pc is the stage to run next, or   *)
(* how the process ended: "done" (the assembly is out), "exit0" and        *)
(* "exit1" (sys.exit with that code), "crash" (an exception no handler     *)
(* catches ends the process with a traceback).  What follows the assembly  *)
(* for "bin" (nasm, the imported modules, the linker) is outside the model.*)

\* the choices of --output-format
OutputFormats == {"bin", "asm", "ast", "lexer"}

\* no exception so far
NoError == [cls |-> "", msg |-> "", stage |-> ""]

\* the exception a stage raised, p the lexer, parser, importer, checker or
\* generator that holds it
Raised(p, stage) == [cls |-> p.err, msg |-> p.msg, stage |-> stage]

\* the sequences that hold every member of S once
Orders(S) ==
    {f \in [1..Cardinality(S) -> S] :
        \A i, j \in 1..Cardinality(S) : f[i] = f[j] => i = j}

\* the names of the top-level nodes of the modules the importer loads for
\* ast_nodes: the names its sets of symbols are made of
LoadedNames(fs, ast_nodes) ==
    UNION { {NameOf(m[i]) : i \in {j \in 1..Len(m) : HasName(m[j])}}
            : m \in {load_module(fs, path).n
                     : path \in Range(resolve_imports(Importer, fs, ast_nodes,
                                                      <<>>)
                                          .p.imported_modules)} }

\* the state in which the driver starts on one of the sources
Start(sources, formats) ==
    /\ pc = "lex"
    /\ src \in sources
    /\ output_format \in formats
    /\ files = LibFiles
    /\ pos = 0 /\ line = 1 /\ column = 1
    /\ tokens = <<>>
    /\ ast = <<>>
    /\ imported = <<>>
    /\ checker = TypeChecker
    /\ asm = None
    /\ written = FALSE
    /\ err = NoError
    /\ ta = Type("void") /\ tb = Type("void") /\ res = None

Init == Start(Sources, OutputFormats)

\* parser = Parser(source): the constructor runs the lexer, outside any try
Lex ==
    /\ pc = "lex"
    /\ \E L \in {scan_tokens(Lexer(src))} :
           /\ tokens' = IF L.err # "" THEN tokens ELSE L.tokens
           /\ pos' = L.pos /\ line' = L.line /\ column' = L.column
           /\ err' = IF L.err # "" THEN Raised(L, "lex") ELSE err
           /\ pc' = IF L.err # "" THEN "crash" ELSE "parse"
    /\ UNCHANGED <<output_format, src, files, ast, imported, checker, asm,
                   written, ta, tb, res>>

\* ast = parser.parse(), in the try that catches Parser.ParserError
Parse ==
    /\ pc = "parse"
    /\ \E r \in {parse([tokens |-> tokens, current_index |-> 0, err |-> "",
                       msg |-> ""])} :
           /\ ast' = IF r.p.err # "" THEN ast ELSE r.n
           /\ err' = IF r.p.err # "" THEN Raised(r.p, "parse") ELSE err
           /\ pc' = IF r.p.err = "" THEN "import"
                    ELSE IF r.p.err = "ParserError" THEN "exit1"
                    ELSE "crash"
    /\ UNCHANGED <<output_format, src, files, pos, line, column, tokens,
                   imported, checker, asm, written, ta, tb, res>>

\* ast, imported_modules = Importer("lib/").resolve_imports(ast), in the
\* same try: a ParserError of a module is caught there, a FileNotFoundError
\* in main(); the formats "lexer" and "ast" print and exit after it
ResolveImports ==
    /\ pc = "import"
    /\ \E order \in Orders(LoadedNames(files, ast)) :
         \E r \in {resolve_imports(Importer, files, ast, order)} :
             /\ ast' = IF r.p.err # "" THEN ast ELSE r.n
             /\ imported' = IF r.p.err # "" THEN imported
                            ELSE r.p.imported_modules
             /\ err' = IF r.p.err # "" THEN Raised(r.p, "import") ELSE err
             /\ pc' = IF r.p.err \in {"ParserError", "FileNotFoundError"}
                      THEN "exit1"
                      ELSE IF r.p.err # "" THEN "crash"
                      ELSE IF output_format \in {"lexer", "ast"} THEN "exit0"
                      ELSE "check"
    /\ UNCHANGED <<output_format, src, files, pos, line, column, tokens,
                   checker, asm, written, ta, tb, res>>

\* the type check of a driver that goes on to the generator whatever the
\* checker raised
TypeCheckAndGoOn ==
    /\ pc = "check"
    /\ \E c \in {check_list(TypeChecker, ast)} :
           /\ checker' = c.p
           /\ err' = IF c.p.err # "" THEN Raised(c.p, "check") ELSE err
           /\ pc' = "codegen"
    /\ UNCHANGED <<output_format, src, files, pos, line, column, tokens, ast,
                   imported, asm, written, ta, tb, res>>

\* TypeChecker().check(ast), in the try that catches the checker's TypeError
TypeCheck ==
    /\ pc = "check"
    /\ \E c \in {check_list(TypeChecker, ast)} :
           /\ checker' = c.p
           /\ err' = IF c.p.err # "" THEN Raised(c.p, "check") ELSE err
           /\ pc' = IF c.p.err = "" THEN "codegen"
                    ELSE IF c.p.err = "TypeError" THEN "exit1"
                    ELSE "crash"
    /\ UNCHANGED <<output_format, src, files, pos, line, column, tokens, ast,
                   imported, asm, written, ta, tb, res>>

\* asm_output = CodeGen().generate(ast), outside any try; a
\* CodegenException exits with status 1 as it is constructed
Generate ==
    /\ pc = "codegen"
    /\ \E g \in {generate(CodeGen, ast)} :
           /\ asm' = IF g.err # "" THEN asm ELSE Some(g.output)
           /\ err' = IF g.err # "" THEN Raised(g, "codegen") ELSE err
           /\ pc' = IF g.err = "" THEN "write"
                    ELSE IF g.err = "CodegenException" THEN "exit1"
                    ELSE "crash"
    /\ UNCHANGED <<output_format, src, files, pos, line, column, tokens, ast,
                   imported, checker, written, ta, tb, res>>

\* f.write(asm_output) into the .asm file ("bin"); print(...) and then
\* sys.exit(0) ("asm")
Write ==
    /\ pc = "write"
    /\ written' = TRUE
    /\ pc' = IF output_format = "asm" THEN "exit0" ELSE "done"
    /\ UNCHANGED <<output_format, src, files, pos, line, column, tokens, ast,
                   imported, checker, asm, err, ta, tb, res>>

Next == Lex \/ Parse \/ ResolveImports \/ TypeCheck \/ Generate \/ Write

Spec == Init /\ [][Next]_vars

-----------------------------------------------------------------------------
(* Properties of the driver.                                               *)

\* the values of pc at which the process has ended
Terminal == {"done", "exit0", "exit1", "crash"}

\* the formats for which the driver runs the type checker and the generator
Compiling == {"bin", "asm"}

\* the line is among the lines
HasLine(lines, l) == \E i \in 1..Len(lines) : lines[i] = l

\* the lines ls follow one another somewhere among the lines
HasLines(lines, ls) ==
    \E i \in 0..(Len(lines) - Len(ls)) :
        \A k \in 1..Len(ls) : lines[i + k] = ls[k]

\* C1: scenario S2.  The pipeline run on
\*   extern puts(u8*) -> int; fn main() -> int { puts("hi"); return 0; }
\* succeeds: once the process has ended the assembly is out, and it holds
\* "extern puts", the .rodata entry "LC1: db 104, 105, 0" and the call
\* sequence lea rax, [rel LC1]; mov rdi, rax; xor rax, rax; call puts.
C1_S2CompilesExternCall ==
    (src = S2Source /\ output_format \in Compiling /\ pc \in Terminal)
        => /\ written
           /\ ~IsNone(asm)
           /\ HasLine(Val(asm), "    extern puts")
           /\ HasLine(Val(asm), "    LC1: db 104, 105, 0")
           /\ HasLines(Val(asm), <<"    lea rax, [rel LC1]",
                                   "    mov rdi, rax",
                                   "    xor rax, rax",
                                   "    call puts">>)

\* C1: the type checker was run on scenario S2 and the process has ended
C1_S2Checked ==
    /\ src = S2Source
    /\ output_format \in Compiling
    /\ pc \in Terminal
    /\ err.stage = "check"
    /\ err.cls = "AttributeError"

\* the failures of the generator that section 7 lists: arrays, indexed
\* access, member access, too many parameters, unsupported operator or node
ListedCodegenError(e) ==
    /\ e.cls = "CodegenException"
    /\ \/ e.msg \in {"Arrays are not supported",
                     "Array indexing is not supported",
                     ".len property is not supported",
                     "Struct member access not implemented",
                     "Unsupported VariableAccess parts length",
                     "More than 6 parameters not supported"}
       \/ \E cls \in {"AsmBlock", "Dereference", "Cast", "PointerLiteral",
                      "ArrayLiteral", "CharLiteral", "ImportNode",
                      "Parameter"} :
              \/ e.msg = "Codegen for " \o cls \o " not implemented"
              \/ e.msg = "Unsupported expression node type: " \o cls
       \/ \E op \in {"NE", "AND", "OR", "XOR", "AND_AND", "OR_OR", "NOT"} :
              e.msg = "Unsupported binary operator " \o op

\* C2: type-check soundness.  For a program the type checker accepted, the
\* generator either returns the assembly or stops with a CodegenError of
\* section 7 raised for a construct the program uses (an indexed access is
\* written with a bracket); it fails in no other way.
C2_TypeCheckSoundness ==
    (pc \in Terminal /\ output_format \in Compiling
        /\ err.stage \notin {"lex", "parse", "import", "check"})
        => \/ err = NoError /\ ~IsNone(asm)
           \/ /\ err.stage = "codegen"
              /\ ListedCodegenError(err)
              /\ (err.msg = "Array indexing is not supported"
                     => "[" \in Range(src))

\* C2: the generator ran on an accepted assignment to a dereference and the
\* process ended in an exception that is no CodegenError
C2_DerefAssignCrashes ==
    /\ src = DerefAssignSource
    /\ pc = "crash"
    /\ err.stage = "codegen"
    /\ err.cls = "KeyError"

-----------------------------------------------------------------------------
(* The range of integer literals: the driver run on `var x: T = v;` and on *)
(* `fn f(x: T) { x = v; }` for every integer type T and the literals v     *)
(* around the ends of the range of T.                                      *)

\* how far from an end of a range the literals go
MaxDelta == 1

\* x + 1 on digit sequences
RECURSIVE MagSucc(_)
MagSucc(a) ==
    IF Len(a) = 0 THEN <<1>>
    ELSE IF a[Len(a)] < 9 THEN [a EXCEPT ![Len(a)] = @ + 1]
    ELSE Append(MagSucc(SubSeq(a, 1, Len(a) - 1)), 0)

\* x + 1 and x - 1
BigInc(x) ==
    IF x.neg THEN BigNeg(BigPred(BigNeg(x)))
    ELSE [neg |-> FALSE, mag |-> MagSucc(x.mag)]

BigDec(x) == BigNeg(BigInc(BigNeg(x)))

\* x + d
RECURSIVE BigShift(_, _)
BigShift(x, d) ==
    IF d = 0 THEN x
    ELSE IF d > 0 THEN BigShift(BigInc(x), d - 1)
    ELSE BigShift(BigDec(x), d + 1)

\* the characters of the names of the integer types
TypeChars ==
    ("u8" :> <<"u", "8">>) @@ ("u16" :> <<"u", "1", "6">>)
    @@ ("u32" :> <<"u", "3", "2">>) @@ ("u64" :> <<"u", "6", "4">>)
    @@ ("i8" :> <<"i", "8">>) @@ ("i16" :> <<"i", "1", "6">>)
    @@ ("i32" :> <<"i", "3", "2">>) @@ ("i64" :> <<"i", "6", "4">>)
    @@ ("usize" :> <<"u", "s", "i", "z", "e">>)
    @@ ("isize" :> <<"i", "s", "i", "z", "e">>)
    @@ ("int" :> <<"i", "n", "t">>) @@ ("uint" :> <<"u", "i", "n", "t">>)
    @@ ("char" :> <<"c", "h", "a", "r">>)

\* the characters of the literal that denotes x
BigChars(x) ==
    (IF x.neg THEN <<"-">> ELSE <<>>)
        \o [i \in 1..Len(x.mag) |-> AsciiPrintable[x.mag[i] + 17]]

\* the literals tried for a type: those within MaxDelta of an end of its
\* range
RangeValues(name) ==
    {BigShift(IntegerRange(name)[e], d) : e \in {1, 2},
                                          d \in (-MaxDelta)..MaxDelta}

\*   var x: T = v;
VarDefSource(name, v) ==
    <<"v", "a", "r", " ", "x", ":", " ">> \o TypeChars[name]
        \o <<" ", "=", " ">> \o BigChars(v) \o <<";">>

\*   fn f(x: T) { x = v; }
AssignSource(name, v) ==
    <<"f", "n", " ", "f", "(", "x", ":", " ">> \o TypeChars[name]
        \o <<")", " ", "{", " ", "x", " ", "=", " ">> \o BigChars(v)
        \o <<";", " ", "}">>

RangeSources ==
    UNION {{VarDefSource(name, v), AssignSource(name, v)}
           : <<name, v>> \in UNION {{<<n, w>> : w \in RangeValues(n)}
                                    : n \in IntegerNames}}

RangeInit == Start(RangeSources, {"bin"})

RangeSpec == RangeInit /\ [][Next]_vars

\* import resolution has succeeded
Imported ==
    /\ pc \in {"check", "codegen", "write"} \cup Terminal
    /\ err.stage \notin {"lex", "parse", "import"}

\* the type checker has run to its end
Checked == Imported /\ pc # "check" /\ output_format \in Compiling

\* the type checker has accepted the program
Accepted == Checked /\ err.stage # "check"

\* the type checker has rejected the program with its TypeError
Rejected == Checked /\ err.stage = "check" /\ err.cls = "TypeError"

\* v lies in the range of the type
InRange(name, v) ==
    BigLeq(IntegerRange(name)[1], v) /\ BigLeq(v, IntegerRange(name)[2])

\* C3: integer-range gating.  For every integer type T and literal v the
\* type checker accepts `var x: T = v;`, and the assignment of v to a
\* variable of type T, when v lies in the range of T, and rejects it
\* otherwise.
C3_IntegerRangeGating ==
    \A name \in IntegerNames :
        \A v \in RangeValues(name) :
            (Checked /\ src \in {VarDefSource(name, v), AssignSource(name, v)})
                => IF InRange(name, v) THEN Accepted ELSE Rejected

\* C3: the type checker has rejected in-range `var x: i8 = 127;`
C3_SignedInRangeRejected ==
    /\ src = VarDefSource("i8", BigNat(<<1, 2, 7>>))
    /\ Rejected
    /\ err.msg = "Type mismatch in variable definition 'x'"

-----------------------------------------------------------------------------
(* Type.is_compatible_with asked of two types, in both orders.             *)

\* the highest pointer level of the types asked about
MaxPointerLevel == 1

\* the names of the types asked about
QueryNames == IntegerNames \cup {"void", "string", "bool", "f64"}

QueryTypes ==
    {TypeOf(name, level, FALSE, None)
        : name \in QueryNames, level \in 0..MaxPointerLevel}

CompatInit ==
    /\ pc = "query"
    /\ ta \in QueryTypes
    /\ tb \in QueryTypes
    /\ res = None
    /\ src = <<>>
    /\ output_format = "bin"
    /\ files = LibFiles
    /\ pos = 0 /\ line = 1 /\ column = 1
    /\ tokens = <<>>
    /\ ast = <<>>
    /\ imported = <<>>
    /\ checker = TypeChecker
    /\ asm = None
    /\ written = FALSE
    /\ err = NoError

\* ta.is_compatible_with(tb) and tb.is_compatible_with(ta)
Query ==
    /\ pc = "query"
    /\ res' = Some([ab |-> is_compatible_with(ta, tb),
                    ba |-> is_compatible_with(tb, ta)])
    /\ pc' = "answered"
    /\ UNCHANGED <<output_format, src, files, pos, line, column, tokens, ast,
                   imported, checker, asm, written, err, ta, tb>>

CompatSpec == CompatInit /\ [][Query]_vars

\* two non-pointer types of which one is unsigned and the other int, or one
\* signed and the other uint, or one char and the other u8 or i8
InteropPair(a, b) ==
    /\ a.pointer_level = 0 /\ b.pointer_level = 0
    /\ \/ is_unsigned(a) /\ b.name = "int"
       \/ is_unsigned(b) /\ a.name = "int"
       \/ is_signed(a) /\ b.name = "uint"
       \/ is_signed(b) /\ a.name = "uint"
       \/ is_char(a) /\ b.name \in {"u8", "i8"}
       \/ is_char(b) /\ a.name \in {"u8", "i8"}

\* C4: the integer interop rule holds in both argument orders: for two
\* non-pointer types a and b that the rule pairs, a.is_compatible_with(b)
\* and b.is_compatible_with(a) are both true.
C4_InteropBothOrders ==
    (pc = "answered" /\ InteropPair(ta, tb))
        => Val(res).ab /\ Val(res).ba

\* C4: int.is_compatible_with(u8) was asked and answered False, while
\* u8.is_compatible_with(int) is True
C4_IntWithU8 ==
    /\ pc = "answered"
    /\ ta = Type("int") /\ tb = Type("u8")
    /\ ~Val(res).ab
    /\ Val(res).ba

-----------------------------------------------------------------------------
(* Properties of the importer, stated on the states of Spec.               *)

\* the top-level list the parser handed to the importer
ParsedAst ==
    parse([tokens |-> tokens, current_index |-> 0, err |-> "", msg |-> ""]).n

\* the import statements among the nodes
ImportsOf(nodes) == SelectSeq(nodes, LAMBDA n : n.cls = "ImportNode")

\* the top-level list of the module an import statement names
ModuleOf(imp) == load_module(files, resolve_module_path(imp.parts)).n

\* the functions and variables a module defines at its top level
Defined(module_ast) ==
    {module_ast[i].name :
        i \in {j \in 1..Len(module_ast) :
                  module_ast[j].cls \in {"FunctionDef", "VariableDef"}}}

\* the names of the functions called below a node of the parser
RECURSIVE find_calls_in_node(_)
find_calls_in_node(n) ==
    LET Seqs(ns) == UNION {find_calls_in_node(ns[i]) : i \in 1..Len(ns)}
        Opt(o) == IF IsNone(o) THEN {} ELSE find_calls_in_node(Val(o))
    IN  IF n.cls = "FunctionCall" THEN {n.name} \cup Seqs(n.arguments)
        ELSE IF n.cls = "FunctionDef" THEN Seqs(n.body)
        ELSE IF n.cls = "VariableDef" THEN Opt(n.value)
        ELSE IF n.cls = "ReturnNode" THEN Opt(n.expression)
        ELSE IF n.cls = "Assignment" THEN find_calls_in_node(n.value)
        ELSE IF n.cls = "BinaryOp"
        THEN find_calls_in_node(n.left) \cup find_calls_in_node(n.right)
        ELSE IF n.cls \in {"Dereference", "Cast"}
        THEN find_calls_in_node(n.expr)
        ELSE IF n.cls = "ArrayLiteral" THEN Seqs(n.elements)
        ELSE {}

\* what the definitions named in S call
CalledBy(S, module_ast) ==
    UNION {find_calls_in_node(module_ast[i]) :
              i \in {j \in 1..Len(module_ast) :
                        /\ module_ast[j].cls \in {"FunctionDef", "VariableDef"}
                        /\ module_ast[j].name \in S}}

\* the transitive call closure: the smallest set that holds S and
\* everything a member calls
RECURSIVE CallClosure(_, _)
CallClosure(S, module_ast) ==
    IF CalledBy(S, module_ast) \subseteq S THEN S
    ELSE CallClosure(S \cup CalledBy(S, module_ast), module_ast)

\* the ExternDecl nodes among the nodes, and their names
Stubs(nodes) == SelectSeq(nodes, LAMBDA n : n.cls = "ExternDecl")

StubNames(nodes) == {Stubs(nodes)[i].name : i \in 1..Len(Stubs(nodes))}

\* how many ExternDecl nodes among the nodes have the name
StubCount(nodes, name) ==
    Cardinality({i \in 1..Len(Stubs(nodes)) : Stubs(nodes)[i].name = name})

\* the import statements of the source that list symbols, and those that
\* import a whole module
Listing == SelectSeq(ImportsOf(ParsedAst),
                     LAMBDA n : ~IsNone(n.imported_symbols))

Whole == SelectSeq(ImportsOf(ParsedAst), LAMBDA n : IsNone(n.imported_symbols))

\* C5: import pruning covers the transitive call closure.  For
\* `import m : s1, ..., sk;` the importer splices a stub for every
\* definition of m in the closure of the listed symbols under "calls".
C5_ClosureIsSpliced ==
    Imported =>
        \A i \in 1..Len(Listing) :
            \A g \in CallClosure(Range(Val(Listing[i].imported_symbols)),
                                 ModuleOf(Listing[i]))
                         \cap Defined(ModuleOf(Listing[i])) :
                g \in StubNames(ast)

\* C5: `import m : a;` is resolved, a calls b in m, and the list holds a
\* stub for a and none for b
C5_CalleeNotSpliced ==
    /\ src = ClosureSource
    /\ Imported
    /\ "b" \in CallClosure({"a"}, ModuleOf(Listing[1]))
    /\ "a" \in StubNames(ast)
    /\ "b" \notin StubNames(ast)

\* C6: scenario S6.  With an explicit symbol list the importer splices no
\* stub for a definition of the module that is neither listed nor called,
\* directly or through other calls, by a listed symbol; `import a.b : foo;`
\* splices an ExternDecl for foo and none for bar.
C6_OnlyListedSpliced ==
    Imported =>
        /\ \A i \in 1..Len(Listing) :
               \A name \in Defined(ModuleOf(Listing[i]))
                     \ CallClosure(Range(Val(Listing[i].imported_symbols)),
                                   ModuleOf(Listing[i])) :
                   name \notin StubNames(ast)
        /\ src = S6Source
               => /\ StubCount(ast, "foo") = 1
                  /\ "bar" \notin StubNames(ast)

\* C6: `import a.b : foo;` is resolved, a.b defines foo and bar, and there
\* is a stub for foo
C6_S6Resolved ==
    /\ src = S6Source
    /\ Imported
    /\ Defined(ModuleOf(Listing[1])) = {"foo", "bar"}
    /\ "foo" \in StubNames(ast)

\* the paths of the import statements met from the nodes down, a module's
\* own import statements being met where the module is first imported
RECURSIVE ImportPaths(_, _)
ImportPaths(nodes, seen) ==
    IF Len(ImportsOf(nodes)) = 0 THEN <<>>
    ELSE LET path == resolve_module_path(ImportsOf(nodes)[1].parts)
             rest == Tail(ImportsOf(nodes))
         IN  IF path \in seen THEN <<path>> \o ImportPaths(rest, seen)
             ELSE <<path>>
                      \o ImportPaths(load_module(files, path).n \o rest,
                                     seen \cup {path})

\* the module is imported more than once: by two import statements, or
\* directly and through another module
ImportedTwice(path) ==
    Cardinality({i \in 1..Len(ImportPaths(ParsedAst, {})) :
                    ImportPaths(ParsedAst, {})[i] = path}) >= 2

\* C7: import idempotence.  When a module the source imports is imported
\* twice, each of its definitions has exactly one stub in the top-level
\* list of the source, and its path is once in the list of imported
\* modules.
C7_ImportedOnce ==
    Imported =>
        \A i \in 1..Len(Whole) :
            ImportedTwice(resolve_module_path(Whole[i].parts)) =>
                /\ \A name \in Defined(ModuleOf(Whole[i])) :
                       StubCount(ast, name) = 1
                /\ Cardinality({k \in 1..Len(imported) :
                       imported[k] = resolve_module_path(Whole[i].parts)})
                       = 1

\* C7: `import p; import q;` is resolved, p imports q, and the top-level
\* list holds no stub for the definitions of q
C7_TransitiveThenDirect ==
    /\ src = TransitiveSource
    /\ Imported
    /\ ImportedTwice("lib/q.sw")
    /\ imported = <<"lib/p.sw", "lib/q.sw">>
    /\ StubNames(ast) = {"pf"}

\* the variables the imported modules define at their top level
ImportedVariables ==
    UNION {{m[i].name : i \in {j \in 1..Len(m) : m[j].cls = "VariableDef"}}
           : m \in {load_module(files, imported[k]).n
                       : k \in 1..Len(imported)}}

\* C8: the stub of a top-level variable of an imported module has the
\* is-variable flag set, so that the type checker enters the name in its
\* table of variables and not in its table of functions: the read of qv in
\* `import q; fn f() -> int { return qv; }` type-checks.
C8_VariableStubIsVariable ==
    /\ Imported =>
           \A i \in 1..Len(Stubs(ast)) :
               Stubs(ast)[i].name \in ImportedVariables => Stubs(ast)[i].var
    /\ (src = ExternVarSource /\ Checked) =>
           /\ Accepted
           /\ "qv" \in DOMAIN checker.symbols
           /\ "qv" \notin DOMAIN checker.functions

\* C8: the read of the imported variable qv is rejected as a variable that
\* is not defined, qv being in the table of functions
C8_ReadOfImportedVariableRejected ==
    /\ src = ExternVarSource
    /\ Rejected
    /\ err.msg = "Variable 'qv' not defined"

-----------------------------------------------------------------------------
(* The order of the stages.                                                *)

\* the stages before the generator
BeforeCodegen == {"lex", "parse", "import", "check"}

\* the steps pc takes when the stages run in the order lexer, parser,
\* importer, type checker, generator, and the ways a stage ends the process
StageOrder ==
    {<<"lex", "parse">>, <<"parse", "import">>, <<"import", "check">>,
     <<"check", "codegen">>, <<"codegen", "write">>, <<"write", "done">>,
     <<"write", "exit0">>, <<"import", "exit0">>}
        \cup ((BeforeCodegen \cup {"codegen"}) \X {"exit1", "crash"})

\* C9: the stages run in the order lexer, parser, importer, type checker,
\* generator, and an error in a stage stops the pipeline: after a failure
\* of lexing, parsing, import resolution or type checking the process has
\* ended, the generator is never started and no assembly is produced or
\* written; every stage up to the generator starts without an error
\* behind it.  For `fn f() { var x: u8 = 300; }` the type checker raises
\* the integer-out-of-range error and no assembly is produced.
C9_StagesInOrderErrorsStop ==
    /\ [](err.stage \in BeforeCodegen
              => pc \in {"exit1", "crash"} /\ IsNone(asm) /\ ~written)
    /\ [](pc \in BeforeCodegen \cup {"codegen", "write"} => err = NoError)
    /\ [](written => ~IsNone(asm) /\ err = NoError)
    /\ []((src = S5Source /\ Checked)
              => /\ Rejected
                 /\ err.msg = "Integer literal 300 out of range for type u8"
                 /\ IsNone(asm))
    /\ [][pc' # pc => <<pc, pc'>> \in StageOrder]_vars
    /\ [][err.stage \in BeforeCodegen => asm' = asm /\ written' = written]_vars

\* C9: the type checker has rejected `fn f() { var x: u8 = 300; }` and the
\* process has ended without assembly
C9_S5Rejected ==
    /\ src = S5Source
    /\ pc = "exit1"
    /\ err.stage = "check"
    /\ err.cls = "TypeError"
    /\ IsNone(asm)

-----------------------------------------------------------------------------
(* The lexer run on one identifier lexeme.                                 *)

\* the length of the longest lexeme made of the letters of LexAlphabet
MaxLexemeLen == 3

LexAlphabet == {"a", "s", "m", "_", "1"}

\* the 13 reserved words, character by character
ReservedLexemes ==
    {<<"l", "e", "t">>, <<"i", "f">>, <<"e", "l", "s", "e">>,
     <<"w", "h", "i", "l", "e">>, <<"r", "e", "t", "u", "r", "n">>,
     <<"f", "n">>, <<"c", "o", "n", "s", "t">>, <<"v", "a", "r">>,
     <<"i", "m", "p", "o", "r", "t">>, <<"e", "x", "t", "e", "r", "n">>,
     <<"p", "u", "b">>, <<"a", "s", "m">>, <<"a", "s">>}

ReservedWords == {Str(w) : w \in ReservedLexemes}

\* the identifier lexemes the lexer is run on: the reserved words, true
\* and false, words that differ from these by a letter or its case, and
\* every word of up to MaxLexemeLen letters of LexAlphabet that starts an
\* identifier
IdentifierLexemes ==
    ReservedLexemes
        \cup {<<"t", "r", "u", "e">>, <<"f", "a", "l", "s", "e">>,
              <<"T", "r", "u", "e">>, <<"L", "e", "t">>, <<"f", "n", "n">>,
              <<"p", "u", "b", "s">>, <<"n", "u", "l", "l">>,
              <<"r", "e", "t", "u", "r", "n", "_">>, <<"x">>}
        \cup UNION {{w \in [1..n -> LexAlphabet] : ~isdigit(w[1])}
                    : n \in 1..MaxLexemeLen}

LexInit == Start(IdentifierLexemes, {"lexer"})

LexSpec == LexInit /\ [][Lex]_vars

\* C10: for an identifier lexeme the lexer emits a KEYWORD token when the
\* lexeme is one of the 13 reserved words, a boolean-literal token when it
\* is true or false, and an IDENT token otherwise.
C10_IdentifierTokens ==
    (pc = "parse" /\ src \in IdentifierLexemes)
        => /\ Len(tokens) = 2
           /\ tokens[2].type = "EOF"
           /\ tokens[1].type =
                  IF Str(src) \in ReservedWords THEN "KEYWORD"
                  ELSE IF Str(src) \in {"true", "false"} THEN "BLIT"
                  ELSE "IDENT"

\* C10: the lexer has emitted an IDENT token for the reserved word "as"
C10_AsIsIdent ==
    /\ pc = "parse"
    /\ src = <<"a", "s">>
    /\ tokens[1].type = "IDENT"
    /\ tokens[1].value = StrV("as")

-----------------------------------------------------------------------------
\* Lexer.scan_tokens, one turn of its loop per step

\* the longest source text the lexer is run on, in characters
MaxSourceLen == 3

\* one character for every branch of the loop of scan_tokens: white space,
\* the slash of comments, a letter, a digit, the quotes, the backslash of an
\* escape (outside a literal it is no symbol of the table) and symbols
ScanAlphabet == {"\n", "/", "*", "a", "1", ".", "\"", "'", "\\"}

ScanSources == UNION {[1..n -> ScanAlphabet] : n \in 0..MaxSourceLen}

ScanInit == Start(ScanSources, {"lexer"})

\* the Lexer object while scan_tokens runs
ScanningLexer ==
    [source |-> src, pos |-> pos, line |-> line, column |-> column,
     tokens |-> tokens, err |-> "", msg |-> ""]

\* one turn of "while self.pos < len(self.source)": a LexerError leaves
\* scan_tokens, and Parser.__init__, without a token list
ScanTurn ==
    /\ pc = "lex"
    /\ pos < Len(src)
    /\ \E L \in {ScanStep(ScanningLexer)} :
           /\ tokens' = IF L.err # "" THEN <<>> ELSE L.tokens
           /\ pos' = L.pos /\ line' = L.line /\ column' = L.column
           /\ err' = IF L.err # "" THEN Raised(L, "lex") ELSE err
           /\ pc' = IF L.err # "" THEN "crash" ELSE "lex"
    /\ UNCHANGED <<output_format, src, files, ast, imported, checker, asm,
                   written, ta, tb, res>>

\* the end of the loop: self.add_token(TokenType.EOF); return self.tokens
ScanReturn ==
    /\ pc = "lex"
    /\ pos >= Len(src)
    /\ tokens' = add_token(ScanningLexer, "EOF", NoneV).tokens
    /\ pc' = "parse"
    /\ UNCHANGED <<output_format, src, files, pos, line, column, ast,
                   imported, checker, asm, written, err, ta, tb, res>>

ScanNext == ScanTurn \/ ScanReturn

\* the interpreter runs the loop on: a turn that can be taken is taken
ScanSpec == ScanInit /\ [][ScanNext]_vars /\ WF_vars(ScanNext)

\* the token list ends with EOF and holds no other EOF
EofOnlyLast(toks) ==
    /\ Len(toks) > 0
    /\ \A i \in 1..Len(toks) : (toks[i].type = "EOF") <=> (i = Len(toks))

\* C11: scan_tokens terminates on every source; the list it returns ends
\* with the EOF token and holds no other EOF; a source it does not accept
\* raises one LexerError and no token list is returned
C11_TokenizationTotality ==
    /\ <>(pc \in {"parse", "crash"})
    /\ [](pc = "parse" => EofOnlyLast(tokens) /\ err = NoError)
    /\ [](pc = "crash" => err.cls = "LexerError" /\ tokens = <<>>)
    /\ [][pc = "lex" /\ pc' = "lex" => pos' > pos]_vars

\* a comment, a number and a char literal are scanned and EOF is added
C11_ThreeTurnsReturned ==
    /\ pc = "parse"
    /\ Len(src) = MaxSourceLen
    /\ Len(tokens) = 3

-----------------------------------------------------------------------------
\* Parser.parse_expression on two binary operators

\* the lexeme of each operator of PRECEDENCE in the table Lexer.symbols
OperatorChars ==
    ("OR_OR" :> <<"|", "|">>) @@ ("OR" :> <<"|">>) @@ ("XOR" :> <<"^">>)
    @@ ("AND_AND" :> <<"&", "&">>) @@ ("AND" :> <<"&">>)
    @@ ("EQ" :> <<"=", "=">>) @@ ("NE" :> <<"!", "=">>) @@ ("LT" :> <<"<">>)
    @@ ("GT" :> <<">">>) @@ ("LE" :> <<"<", "=">>) @@ ("GE" :> <<">", "=">>)
    @@ ("PLUS" :> <<"+">>) @@ ("MINUS" :> <<"-">>) @@ ("STAR" :> <<"*">>)
    @@ ("SLASH" :> <<"/">>) @@ ("PERCENT" :> <<"%">>)

\*   a op1 b op2 c;
ExprSource(op1, op2) ==
    <<"a", " ">> \o OperatorChars[op1] \o <<" ", "b", " ">>
        \o OperatorChars[op2] \o <<" ", "c", ";">>

\*   1 + 2 * 3;
OnePlusTwoTimesThree == <<"1", " ", "+", " ", "2", " ", "*", " ", "3", ";">>

\*   (1 + 2) * 3;
ParenthesizedSum ==
    <<"(", "1", " ", "+", " ", "2", ")", " ", "*", " ", "3", ";">>

ExprSources ==
    {ExprSource(op1, op2) : op1 \in DOMAIN PRECEDENCE,
                            op2 \in DOMAIN PRECEDENCE}
    \cup {OnePlusTwoTimesThree, ParenthesizedSum}

ExprInit == Start(ExprSources, {"ast"})

ExprNext == Lex \/ Parse

ExprSpec == ExprInit /\ [][ExprNext]_vars

Operand(name) == VariableAccess(<<StrV(name)>>)

Number(n) == NumberLiteral(IntV(BigNat(<<n>>)))

\* a op1 b op2 c with op2 bound to b and c first
GroupRight(a, op1, b, op2, c) == BinaryOp(a, op1, BinaryOp(b, op2, c))

\* a op1 b op2 c with op1 bound to a and b first
GroupLeft(a, op1, b, op2, c) == BinaryOp(BinaryOp(a, op1, b), op2, c)

\* C12: of two binary operators of the precedence table the one at the
\* higher level binds tighter and operators of one level group to the left:
\* "a op1 b op2 c" parses to (a op1 b) op2 c unless op2 is at a higher level
\* than op1, and then to a op1 (b op2 c); "1 + 2 * 3" parses to
\* BinaryOp(1, +, BinaryOp(2, *, 3)), "(1 + 2) * 3" to
\* BinaryOp(BinaryOp(1, +, 2), *, 3), "a - b - c" to
\* BinaryOp(BinaryOp(a, -, b), -, c).
C12_PrecedenceAndAssociativity ==
    pc \notin {"lex", "parse"} =>
        /\ pc = "import"
        /\ \A op1, op2 \in DOMAIN PRECEDENCE :
               src = ExprSource(op1, op2) =>
                   ast = << IF PRECEDENCE[op2] > PRECEDENCE[op1]
                            THEN GroupRight(Operand("a"), op1, Operand("b"),
                                            op2, Operand("c"))
                            ELSE GroupLeft(Operand("a"), op1, Operand("b"),
                                           op2, Operand("c")) >>
        /\ src = OnePlusTwoTimesThree =>
               ast = <<GroupRight(Number(1), "PLUS", Number(2), "STAR",
                                  Number(3))>>
        /\ src = ParenthesizedSum =>
               ast = <<GroupLeft(Number(1), "PLUS", Number(2), "STAR",
                                 Number(3))>>
        /\ src = ExprSource("MINUS", "MINUS") =>
               ast = <<GroupLeft(Operand("a"), "MINUS", Operand("b"),
                                 "MINUS", Operand("c"))>>

\* "a - b - c;" is parsed
C12_SubtractionChainParsed ==
    /\ pc = "import"
    /\ src = ExprSource("MINUS", "MINUS")
    /\ ast[1].cls = "BinaryOp"

-----------------------------------------------------------------------------
\* CodeGen._codegen_function_call on calls of a variadic extern

\* the largest number of arguments of a call
MaxArgc == 9

\* the arguments i..argc of the call, the one at position sum written "1 + 1"
RECURSIVE ArgChars(_, _, _)
ArgChars(i, argc, sum) ==
    IF i > argc THEN <<>>
    ELSE (IF i = sum THEN <<"1", " ", "+", " ", "1">> ELSE <<"1">>)
         \o (IF i < argc THEN <<",", " ">> ELSE <<>>)
         \o ArgChars(i + 1, argc, sum)

\*   extern f(...); fn main() { f(1, ..., 1); }
CallSource(argc, sum) ==
    <<"e", "x", "t", "e", "r", "n", " ", "f", "(", ".", ".", ".", ")", ";",
      " ", "f", "n", " ", "m", "a", "i", "n", "(", ")", " ", "{", " ", "f",
      "(">> \o ArgChars(1, argc, sum) \o <<")", ";", " ", "}">>

CallSources ==
    UNION {{CallSource(argc, sum) : sum \in 0..argc} : argc \in 0..MaxArgc}

CallInit == Start(CallSources, Compiling)

CallSpec == CallInit /\ [][Next]_vars

\* the positions of the line among the lines
Positions(lines, l) == {i \in 1..Len(lines) : lines[i] = l}

\* the call site of f with argc arguments in the lines of main: padded with
\* 8 bytes before the first push and released after the call when the number
\* of stack arguments is odd, and not padded when it is even
AlignedCallSite(lines, argc) ==
    \E call \in Positions(lines, "    call f") :
        \E stack_args \in {IF argc > 6 THEN argc - 6 ELSE 0} :
            /\ Positions(lines, "    call f") = {call}
            /\ Cardinality({i \in Positions(lines, "    push rax") : i < call})
                   >= stack_args
            /\ stack_args > 0 =>
                   lines[call + 1] = "    add rsp, " \o NatStr(8 * stack_args)
            /\ IF stack_args % 2 = 1
               THEN /\ \E pad \in Positions(lines, "    sub rsp, 8") :
                           /\ Positions(lines, "    sub rsp, 8") = {pad}
                           /\ \A i \in Positions(lines, "    push rax") :
                                  pad < i
                    /\ lines[call + 2] = "    add rsp, 8"
               ELSE /\ Positions(lines, "    sub rsp, 8") = {}
                    /\ lines[call + IF stack_args > 0 THEN 2 ELSE 1]
                           = "    mov rsp, rbp"

\* C13: a call with more than six arguments whose number of stack arguments
\* (argc - 6) is odd gets "sub rsp, 8" before the first push of a stack
\* argument and "add rsp, 8" after the call, besides the release of 8 bytes
\* per stack argument; a call with an even number of stack arguments, zero
\* included, gets no adjustment.
C13_CallSiteAlignment ==
    pc \in Terminal =>
        /\ ~IsNone(asm)
        /\ \A argc \in 0..MaxArgc : \A sum \in 0..argc :
               src = CallSource(argc, sum) =>
                   AlignedCallSite(Val(asm), argc)

\* the call with seven arguments, one of them on the stack, is compiled
C13_OddStackArguments ==
    /\ pc \in Terminal
    /\ src = CallSource(7, 7)
    /\ HasLines(Val(asm), <<"    call f", "    add rsp, 8", "    add rsp, 8">>)

-----------------------------------------------------------------------------
\* CodeGen.get_string_label and the .rodata section of CodeGen.generate

\* the largest number of string literals in the body of main
MaxLiterals == 3

\* the contents of the string literals: hi, yo and a\n, whose escape
\* generate decodes
LiteralContents == {<<"h", "i">>, <<"y", "o">>, <<"a", "\\", "n">>}

\* the bytes .rodata holds for each content
ContentBytes ==
    (<<"h", "i">> :> "104, 105") @@ (<<"y", "o">> :> "121, 111")
    @@ (<<"a", "\\", "n">> :> "97, 10")

\* the statements "c"; for the contents of seq
RECURSIVE LiteralStatements(_)
LiteralStatements(seq) ==
    IF Len(seq) = 0 THEN <<>>
    ELSE <<"\"">> \o Head(seq) \o <<"\"", ";", " ">>
         \o LiteralStatements(Tail(seq))

\*   var g: string = "c";     for global = <<c>>, nothing for global = <<>>
GlobalChars(global) ==
    IF Len(global) = 0 THEN <<>>
    ELSE <<"v", "a", "r", " ", "g", ":", " ", "s", "t", "r", "i", "n", "g",
           " ", "=", " ", "\"">> \o global[1] \o <<"\"", ";", " ">>

\*   var g: string = "c0"; fn main() { "c1"; ... "cn"; }
PoolSource(global, seq) ==
    GlobalChars(global)
        \o <<"f", "n", " ", "m", "a", "i", "n", "(", ")", " ", "{", " ">>
        \o LiteralStatements(seq) \o <<"}">>

LiteralSeqs == UNION {[1..n -> LiteralContents] : n \in 0..MaxLiterals}

GlobalChoices == {<<>>} \cup {<<c>> : c \in LiteralContents}

PoolSources ==
    {PoolSource(global, seq) : global \in GlobalChoices, seq \in LiteralSeqs}

PoolInit == Start(PoolSources, {"asm"})

PoolSpec == PoolInit /\ [][Next]_vars

\* the distinct contents of the uses, in the order of their first use
RECURSIVE FirstUses(_)
FirstUses(uses) ==
    IF Len(uses) = 0 THEN <<>>
    ELSE The({ IF uses[Len(uses)] \in Range(before) THEN before
               ELSE Append(before, uses[Len(uses)])
               : before \in {FirstUses(SubSeq(uses, 1, Len(uses) - 1))} })

\* the label of the k-th distinct content
PoolLabel(k) == "LC" \o NatStr(k)

\* the position of the content among the distinct contents
PoolIndex(distinct, c) == CHOOSE k \in 1..Len(distinct) : distinct[k] = c

\* the loads of the labels
LeaLines ==
    {"    lea rax, [rel " \o PoolLabel(k) \o "]" : k \in 1..(MaxLiterals + 1)}

\* the pool of the run and the assembly it returned, for the uses in the
\* order of their lowering: each distinct content has one label, the labels
\* are LC1..LCn in first-use order, every use loads the label of its content
\* and .rodata holds one entry per distinct content
PoolOf(global, seq, pool, lines) ==
    \E distinct \in {FirstUses(global \o seq)} :
        /\ pool = [k \in 1..Len(distinct) |-> <<distinct[k], PoolLabel(k)>>]
        /\ Len(global) > 0 => HasLine(lines, "    g: dq LC1")
        /\ SelectSeq(lines, LAMBDA l : l \in LeaLines)
               = [i \in 1..Len(seq) |->
                      "    lea rax, [rel "
                          \o PoolLabel(PoolIndex(distinct, seq[i])) \o "]"]
        /\ IF Len(distinct) = 0
           THEN Positions(lines, "section .rodata") = {}
           ELSE \E p \in Positions(lines, "section .rodata") :
                    SubSeq(lines, p + 1, Len(lines))
                        = [k \in 1..Len(distinct) |->
                               "    " \o PoolLabel(k) \o ": db "
                                   \o ContentBytes[distinct[k]] \o ", 0"]

\* C14: after the string literals of a program are lowered in one run of the
\* generator, every distinct literal content has exactly one label, distinct
\* contents have distinct labels, the labels are LC1..LCn in first-use order
\* with n the number of distinct contents, and .rodata holds exactly one
\* "LC<k>: db ..., 0" entry per distinct content.
C14_StringPool ==
    pc \in Terminal =>
        /\ ~IsNone(asm)
        /\ \A global \in GlobalChoices : \A seq \in LiteralSeqs :
               src = PoolSource(global, seq) =>
                   PoolOf(global, seq,
                          generate(CodeGen, ast).string_literals, Val(asm))

\* the program that uses "hi" twice is compiled, with one entry
C14_HiTwice ==
    /\ pc \in Terminal
    /\ src = PoolSource(<<>>, << <<"h", "i">>, <<"h", "i">> >>)
    /\ HasLines(Val(asm), <<"section .rodata", "    LC1: db 104, 105, 0">>)
    /\ ~HasLine(Val(asm), "    LC2: db 104, 105, 0")

-----------------------------------------------------------------------------
\* CodeGen._codegen_function and CodeGen.prologue: the frame of a function

\* the largest numbers of parameters and of local variables of a function
MaxParams == 3
MaxLocals == 3

ParamNames == <<"a", "b", "c", "d", "e", "h">>
LocalNames == <<"u", "v", "w", "x", "y", "z">>

\*   a: int, b: int, ...     the parameters i..n
RECURSIVE ParamChars(_, _)
ParamChars(i, n) ==
    IF i > n THEN <<>>
    ELSE <<ParamNames[i], ":", " ", "i", "n", "t">>
         \o (IF i < n THEN <<",", " ">> ELSE <<>>)
         \o ParamChars(i + 1, n)

\*   var u: int = 1; var v: int = 1; ...     the locals i..n
RECURSIVE LocalChars(_, _)
LocalChars(i, n) ==
    IF i > n THEN <<>>
    ELSE <<"v", "a", "r", " ", LocalNames[i], ":", " ", "i", "n", "t", " ",
           "=", " ", "1", ";", " ">> \o LocalChars(i + 1, n)

\*   fn f(a: int, ...) { var u: int = 1; ... }
FrameSource(params, locals) ==
    <<"f", "n", " ", "f", "(">> \o ParamChars(1, params)
        \o <<")", " ", "{", " ">> \o LocalChars(1, locals) \o <<"}">>

FrameSources ==
    {FrameSource(params, locals) : params \in 0..MaxParams,
                                   locals \in 0..MaxLocals}

FrameInit == Start(FrameSources, Compiling)

FrameSpec == FrameInit /\ [][Next]_vars

\* the bytes the line takes from rsp: n for "sub rsp, n", 0 for other lines
Reserved(l) ==
    IF \E n \in 1..(16 * (MaxParams + MaxLocals)) :
           l = "    sub rsp, " \o NatStr(n)
    THEN CHOOSE n \in 1..(16 * (MaxParams + MaxLocals)) :
             l = "    sub rsp, " \o NatStr(n)
    ELSE 0

\* the sum of all "sub rsp" among the lines
RECURSIVE TotalReserved(_)
TotalReserved(lines) ==
    IF Len(lines) = 0 THEN 0
    ELSE Reserved(Head(lines)) + TotalReserved(Tail(lines))

RoundUp16(n) == ((n + 15) \div 16) * 16

\* C15: the code of a function starts with "push rbp; mov rbp, rsp" and
\* reserves, before its first body statement, N bytes in all, N being 8
\* bytes per local VariableDef of the body plus 8 bytes per parameter stored
\* on the frame, rounded up to a multiple of 16: N is a multiple of 16 and
\* N >= 8 * (locals + parameters).  (The bodies hold variable definitions
\* only, so every "sub rsp" of the assembly is emitted before the body.)
C15_FramePrologue ==
    pc \in Terminal =>
        /\ ~IsNone(asm)
        /\ \A params \in 0..MaxParams : \A locals \in 0..MaxLocals :
               src = FrameSource(params, locals) =>
                   /\ HasLines(Val(asm),
                               <<"f:", "    push rbp", "    mov rbp, rsp">>)
                   /\ TotalReserved(Val(asm))
                          = RoundUp16(8 * (locals + params))

\* a function of two parameters and no local is compiled: 8 bytes are
\* reserved for 16 bytes of parameters
C15_TwoParametersEightBytes ==
    /\ pc \in Terminal
    /\ src = FrameSource(2, 0)
    /\ HasLines(Val(asm), <<"    mov rbp, rsp", "    sub rsp, 8",
                            "    mov [rbp-8], rdi", "    mov [rbp-16], rsi">>)
    /\ TotalReserved(Val(asm)) = 8

-----------------------------------------------------------------------------
\* CodeGen._codegen_function: the epilogue after the body

\* the largest number of statements in the body of a function
MaxBody == 3

\* the statements of the bodies:  return;  and the expression statement  1;
ReturnStatement == <<"r", "e", "t", "u", "r", "n", ";">>

ExpressionStatement == <<"1", ";">>

BodyStatements == {ReturnStatement, ExpressionStatement}

RECURSIVE BodyChars(_)
BodyChars(body) ==
    IF Len(body) = 0 THEN <<>>
    ELSE Head(body) \o <<" ">> \o BodyChars(Tail(body))

\*   fn f() { <body> } fn g() { }
EpilogueSource(body) ==
    <<"f", "n", " ", "f", "(", ")", " ", "{", " ">> \o BodyChars(body)
        \o <<"}", " ", "f", "n", " ", "g", "(", ")", " ", "{", " ", "}">>

Bodies == UNION {[1..n -> BodyStatements] : n \in 0..MaxBody}

EpilogueSources == {EpilogueSource(body) : body \in Bodies}

EpilogueInit == Start(EpilogueSources, Compiling)

EpilogueSpec == EpilogueInit /\ [][Next]_vars

\* the lines of the code of f end with the epilogue
EndsWithEpilogue(lines) ==
    \E g \in Positions(lines, "g:") :
        /\ g > 3
        /\ SubSeq(lines, g - 3, g - 1)
               = <<"    mov rsp, rbp", "    pop rbp", "    ret">>

\* C16: for a function whose body does not end with a return statement, a
\* body with a return before its last statement included, the epilogue
\* "mov rsp, rbp; pop rbp; ret" is appended after the code of the body; the
\* code of every function ends with "ret", the next function's label follows
\* it.
C16_EpilogueAppended ==
    pc \in Terminal =>
        /\ ~IsNone(asm)
        /\ \A body \in Bodies :
               src = EpilogueSource(body) => EndsWithEpilogue(Val(asm))

\* a body with a return before its last statement is compiled: the code of
\* the last statement is followed by the label of the next function
C16_ReturnThenStatement ==
    /\ pc \in Terminal
    /\ src = EpilogueSource(<<ReturnStatement, ExpressionStatement>>)
    /\ HasLines(Val(asm), <<"    ret", "    mov rax, 1", "g:">>)

-----------------------------------------------------------------------------
\* CodeGen._codegen_binary_op on the comparison operators

\* the condition code the comparison of each lexeme is lowered with
ConditionCode ==
    (<<"=", "=">> :> "e") @@ (<<"!", "=">> :> "ne") @@ (<<"<">> :> "l")
    @@ (<<"<", "=">> :> "le") @@ (<<">">> :> "g") @@ (<<">", "=">> :> "ge")

\* the operands of the comparisons and the load of each into rax
OperandLoad ==
    ("a" :> "    mov rax, [rbp-8]") @@ ("b" :> "    mov rax, [rbp-16]")
    @@ ("1" :> "    mov rax, 1") @@ ("2" :> "    mov rax, 2")

\*   fn f(a: int, b: int) { left op right; }
ComparisonSource(left, op, right) ==
    <<"f", "n", " ", "f", "(", "a", ":", " ", "i", "n", "t", ",", " ", "b",
      ":", " ", "i", "n", "t", ")", " ", "{", " ", left, " ">> \o op
        \o <<" ", right, ";", " ", "}">>

ComparisonSources ==
    {ComparisonSource(left, op, right) :
         left \in {"a", "1"}, op \in DOMAIN ConditionCode,
         right \in {"b", "2"}}

ComparisonInit == Start(ComparisonSources, Compiling)

ComparisonSpec == ComparisonInit /\ [][Next]_vars

\* C17: a BinaryOp parsed from source with one of ==, !=, <, <=, >, >= is
\* lowered to the operand sequence (left into rax, push rax, right into rax,
\* mov rbx, rax, pop rax) followed by "cmp rax, rbx; set<cc> al;
\* movzx rax, al" with <cc> = e, ne, l, le, g, ge respectively.
C17_ComparisonLowering ==
    pc \in Terminal =>
        /\ ~IsNone(asm)
        /\ \A left \in {"a", "1"}, op \in DOMAIN ConditionCode,
              right \in {"b", "2"} :
               src = ComparisonSource(left, op, right) =>
                   HasLines(Val(asm),
                            <<OperandLoad[left], "    push rax",
                              OperandLoad[right], "    mov rbx, rax",
                              "    pop rax", "    cmp rax, rbx",
                              "    set" \o ConditionCode[op] \o " al",
                              "    movzx rax, al">>)

\* the generator was run on "a != b" and stopped on the operator
C17_NotEqualUnsupported ==
    /\ pc \in Terminal
    /\ src = ComparisonSource("a", <<"!", "=">>, "b")
    /\ err.stage = "codegen"
    /\ err.cls = "CodegenException"
    /\ IsNone(asm)

-----------------------------------------------------------------------------
\* CodeGen._codegen_expression on boolean literals

\* the places of the literal: what precedes it and what follows it

\*   fn f() { <literal>; }
StatementContext ==
    << <<"f", "n", " ", "f", "(", ")", " ", "{", " ">>,
       <<";", " ", "}">> >>

\*   fn f() -> bool { return <literal>; }
ReturnContext ==
    << <<"f", "n", " ", "f", "(", ")", " ", "-", ">", " ", "b", "o", "o",
         "l", " ", "{", " ", "r", "e", "t", "u", "r", "n", " ">>,
       <<";", " ", "}">> >>

\*   fn f() { var x: bool = <literal>; }
LocalContext ==
    << <<"f", "n", " ", "f", "(", ")", " ", "{", " ", "v", "a", "r", " ",
         "x", ":", " ", "b", "o", "o", "l", " ", "=", " ">>,
       <<";", " ", "}">> >>

\*   extern g(...); fn f() { g(<literal>); }
ArgumentContext ==
    << <<"e", "x", "t", "e", "r", "n", " ", "g", "(", ".", ".", ".", ")",
         ";", " ", "f", "n", " ", "f", "(", ")", " ", "{", " ", "g", "(">>,
       <<")", ";", " ", "}">> >>

BooleanContexts ==
    {StatementContext, ReturnContext, LocalContext, ArgumentContext}

BooleanChars ==
    ("true" :> <<"t", "r", "u", "e">>)
    @@ ("false" :> <<"f", "a", "l", "s", "e">>)

BooleanSource(context, literal) ==
    context[1] \o BooleanChars[literal] \o context[2]

BooleanSources ==
    {BooleanSource(context, literal) :
         context \in BooleanContexts, literal \in DOMAIN BooleanChars}

BooleanInit == Start(BooleanSources, Compiling)

BooleanSpec == BooleanInit /\ [][Next]_vars

\* C18: the literal true is lowered to "mov rax, 1" and the literal false to
\* "mov rax, 0".
C18_BooleanLiteralLowering ==
    pc \in Terminal =>
        /\ ~IsNone(asm)
        /\ \A context \in BooleanContexts :
               /\ src = BooleanSource(context, "true") =>
                      HasLine(Val(asm), "    mov rax, 1")
               /\ src = BooleanSource(context, "false") =>
                      HasLine(Val(asm), "    mov rax, 0")

\* "return true;" is compiled: rax is loaded with 0 before the epilogue
C18_TrueLoadsZero ==
    /\ pc \in Terminal
    /\ src = BooleanSource(ReturnContext, "true")
    /\ HasLines(Val(asm), <<"    mov rbp, rsp", "    mov rax, 0",
                            "    mov rsp, rbp">>)

-----------------------------------------------------------------------------
\* CodeGen._codegen_function and _codegen_variable_def on array locals

\* the largest size of an array type
MaxArraySize == 3

\* the element types of the arrays
ElementNames == {"int", "u8", "i8", "char"}

SizeChars == <<"1", "2", "3", "4", "5", "6", "7", "8", "9">>

\*   T[size]
ArrayTypeChars(name, size) ==
    TypeChars[name] \o <<"[", SizeChars[size], "]">>

\*   1, 1, ..., 1     n elements
RECURSIVE ElementChars(_)
ElementChars(n) ==
    IF n = 0 THEN <<>>
    ELSE <<"1">> \o (IF n > 1 THEN <<",", " ">> ELSE <<>>)
         \o ElementChars(n - 1)

\*   fn f() { var a: T[size] = [1, ..., 1]; }
ArrayLiteralSource(name, size) ==
    <<"f", "n", " ", "f", "(", ")", " ", "{", " ", "v", "a", "r", " ", "a",
      ":", " ">> \o ArrayTypeChars(name, size) \o <<" ", "=", " ", "[">>
        \o ElementChars(size) \o <<"]", ";", " ", "}">>

\*   fn f(p: T[size]) { var a: T[size] = p; }
ArrayCopySource(name, size) ==
    <<"f", "n", " ", "f", "(", "p", ":", " ">> \o ArrayTypeChars(name, size)
        \o <<")", " ", "{", " ", "v", "a", "r", " ", "a", ":", " ">>
        \o ArrayTypeChars(name, size)
        \o <<" ", "=", " ", "p", ";", " ", "}">>

ArraySources ==
    UNION {{ArrayLiteralSource(name, size), ArrayCopySource(name, size)}
           : name \in ElementNames, size \in 1..MaxArraySize}

ArrayInit == Start(ArraySources, Compiling)

ArraySpec == ArrayInit /\ [][Next]_vars

\* C19: code generation of a function whose body declares a local variable
\* of array type stops with the CodegenError "Arrays are not supported" and
\* returns no assembly.  (Every source declares the array local a in the body
\* of f; the generator runs on those the type checker accepts.)
C19_ArrayLocalsRejected ==
    (pc \in Terminal /\ Accepted) =>
        /\ err.stage = "codegen"
        /\ err.cls = "CodegenException"
        /\ err.msg = "Arrays are not supported"
        /\ IsNone(asm)

\* the function that copies its array parameter into an array local is
\* compiled
C19_ArrayLocalCompiled ==
    /\ pc \in Terminal
    /\ src = ArrayCopySource("int", 2)
    /\ err = NoError
    /\ HasLines(Val(asm), <<"    mov rax, [rbp-16]", "    mov [rbp-8], rax">>)

-----------------------------------------------------------------------------
\* TypeChecker.check_ReturnNode on "return a;" in a function

\* the types of the parameter and of the result
ReturnNames == {"int", "u8", "i8", "char"}

\* the declared return type: none, or one of the types
Declarations == {None} \cup {Some(name) : name \in ReturnNames}

\*   -> T     for declared = <<T>>, nothing for declared = <<>>
ArrowChars(declared) ==
    IF IsNone(declared) THEN <<>>
    ELSE <<"-", ">", " ">> \o TypeChars[Val(declared)] \o <<" ">>

\*   fn f(a: S) -> T { return a; }
ReturnSource(given, declared) ==
    <<"f", "n", " ", "f", "(", "a", ":", " ">> \o TypeChars[given]
        \o <<")", " ">> \o ArrowChars(declared)
        \o <<"{", " ", "r", "e", "t", "u", "r", "n", " ", "a", ";", " ", "}">>

ReturnSources ==
    {ReturnSource(given, declared) :
         given \in ReturnNames, declared \in Declarations}

ReturnInit == Start(ReturnSources, Compiling)

ReturnSpec == ReturnInit /\ [][Next]_vars

\* the type checker stopped on the return statement with the mismatch of
\* the returned and the declared type
ReturnMismatch ==
    /\ Rejected
    /\ err.msg = "Function returns a type other than declared"

\* C20: a return statement with an expression inside a function is accepted
\* exactly when the type of the expression is compatible (is_compatible_with)
\* with the declared return type of the function, and is otherwise rejected
\* with the return type-mismatch TypeError; a function declared without a
\* return type is no exception: its return is accepted or rejected with that
\* TypeError.
C20_ReturnChecking ==
    (pc \in Terminal /\ Checked) =>
        /\ Accepted \/ ReturnMismatch
        /\ \A given \in ReturnNames : \A name \in ReturnNames :
               src = ReturnSource(given, Some(name)) =>
                   (Accepted <=> is_compatible_with(Type(name), Type(given)))

\* the type checker was run on "fn f(a: int) { return a; }", a function
\* declared without a return type, and raised an AttributeError
C20_UndeclaredReturnCrashes ==
    /\ pc = "crash"
    /\ src = ReturnSource("int", None)
    /\ err.stage = "check"
    /\ err.cls = "AttributeError"

-----------------------------------------------------------------------------
\* TypeChecker.check_FunctionDef: the tables before and after a function

\* the largest number of statements in the body of the function
MaxScopeBody == 2

\* the statements of the body:  var u: int = 1;  extern h(...);  fn k() { }
LocalStatement ==
    <<"v", "a", "r", " ", "u", ":", " ", "i", "n", "t", " ", "=", " ", "1",
      ";">>

NestedExternStatement ==
    <<"e", "x", "t", "e", "r", "n", " ", "h", "(", ".", ".", ".", ")", ";">>

NestedFunctionStatement ==
    <<"f", "n", " ", "k", "(", ")", " ", "{", " ", "}">>

ScopeStatements ==
    {LocalStatement, NestedExternStatement, NestedFunctionStatement}

ScopeBodies == UNION {[1..n -> ScopeStatements] : n \in 0..MaxScopeBody}

\*   var g: int = 1; fn m() { }      what precedes the function, or nothing
OuterChars(outer) ==
    IF outer
    THEN <<"v", "a", "r", " ", "g", ":", " ", "i", "n", "t", " ", "=", " ",
           "1", ";", " ", "f", "n", " ", "m", "(", ")", " ", "{", " ", "}",
           " ">>
    ELSE <<>>

\*   var g: int = 1; fn m() { } fn f(a: int, ...) { <body> }
ScopeSource(outer, params, body) ==
    OuterChars(outer) \o <<"f", "n", " ", "f", "(">> \o ParamChars(1, params)
        \o <<")", " ", "{", " ">> \o BodyChars(body) \o <<"}">>

ScopeSources ==
    {ScopeSource(outer, params, body) :
         outer \in BOOLEAN, params \in 0..MaxParams, body \in ScopeBodies}

ScopeInit == Start(ScopeSources, {"asm"})

ScopeSpec == ScopeInit /\ [][Next]_vars

\* the checker just before the k-th top-level node is checked
CheckerBefore(k) == check_list(TypeChecker, SubSeq(ast, 1, k - 1)).p

\* the checker after the k-th top-level node was checked
CheckerAfter(k) == check(CheckerBefore(k), ast[k]).p

\* the top-level functions of the tree that check_FunctionDef enters and
\* leaves normally
CheckedFunctions ==
    {k \in 1..Len(ast) : /\ ast[k].cls = "FunctionDef"
                         /\ CheckerBefore(k).err = ""
                         /\ CheckerAfter(k).err = ""}

\* the functions and externs declared by the statements, at any depth
RECURSIVE DeclaredIn(_)
DeclaredIn(body) ==
    UNION { IF body[i].cls = "FunctionDef"
            THEN {body[i].name} \cup DeclaredIn(body[i].body)
            ELSE IF body[i].cls = "ExternDecl" THEN {body[i].name}
            ELSE {}
            : i \in 1..Len(body) }

\* the variable table after the k-th node is the one before it
SymbolsRestored(k) == CheckerAfter(k).symbols = CheckerBefore(k).symbols

\* the function table keeps its entries and gains the names
FunctionsGain(k, names) ==
    /\ DOMAIN CheckerAfter(k).functions
           = DOMAIN CheckerBefore(k).functions \cup names
    /\ \A n \in DOMAIN CheckerBefore(k).functions :
           CheckerAfter(k).functions[n] = CheckerBefore(k).functions[n]

\* C21 as stated: after check_FunctionDef returns normally the variable
\* table equals the table just before the function was entered, and the
\* function table differs only by the added entry for the function.
C21_ScopeDiscipline ==
    pc \notin {"lex", "parse", "import"} =>
        \A k \in CheckedFunctions :
            /\ SymbolsRestored(k)
            /\ FunctionsGain(k, {ast[k].name})

\* C21 amended: after check_FunctionDef returns normally the variable table
\* equals the table just before the function was entered, and the function
\* table, which is flat, differs only by the added entries for the function
\* and for the functions and externs declared in its body.
C21_ScopeDisciplineFlatTable ==
    pc \notin {"lex", "parse", "import"} =>
        \A k \in CheckedFunctions :
            /\ SymbolsRestored(k)
            /\ FunctionsGain(k, {ast[k].name} \cup DeclaredIn(ast[k].body))
            /\ CheckerAfter(k).functions[ast[k].name] = ast[k]

\* a function with parameters, a local and a nested extern was checked after
\* a global variable and a function
C21_NestedExternChecked ==
    /\ pc \in Terminal
    /\ src = ScopeSource(TRUE, 2, <<LocalStatement, NestedExternStatement>>)
    /\ 3 \in CheckedFunctions
    /\ DOMAIN checker.functions = {"m", "f", "h"}
    /\ DOMAIN checker.symbols = {"g"}

-----------------------------------------------------------------------------
\* Lexer.advance, Lexer.string: the position, the line and the column

\* the newline characters among the characters consumed so far
NewlinesConsumed == Cardinality({i \in 1..pos : src[i] = "\n"})

\* the scan is between two turns of its loop, or has returned
BetweenTurns == pc \in {"lex", "parse"}

\* the string literal that holds a newline
NewlineInString == <<"\"", "\n", "\"">>

\* C22: at every point of a scan line equals 1 plus the number of newline
\* characters consumed so far, column is 1 immediately after a newline
\* wherever it occurs, and position and line never decrease.
C22_PositionTracking ==
    /\ [](BetweenTurns => line = 1 + NewlinesConsumed)
    /\ [](BetweenTurns /\ pos > 0 /\ src[pos] = "\n" => column = 1)
    /\ [][pos' >= pos /\ line' >= line]_vars

\* the literal with a newline was scanned and the line is 3, not 2
C22_NewlineInStringCountedTwice ==
    /\ pc = "parse"
    /\ src = NewlineInString
    /\ pos = 3
    /\ NewlinesConsumed = 1
    /\ line = 3

-----------------------------------------------------------------------------
\* Parser.parse_primary, TypeChecker.check_CharLiteral: character literals

\* the characters and the escapes of the literals:  'a'  '0'  '\n'  '\\'
CharBodies == {<<"a">>, <<"0">>, <<"\\", "n">>, <<"\\", "\\">>}

\* the same places hold the number 97 in the programs to compare with
NumberBody == <<"9", "7">>

\* the places of the literal: the initializer of a global or of a local
\* variable, the right side of an assignment, a returned value, an argument,
\* an operand
CharContexts ==
    {"global", "local", "assignment", "return", "argument", "operand"}

CharLiteralChars(body) ==
    IF body = NumberBody THEN body ELSE <<"'">> \o body \o <<"'">>

\* the program with the literal at the place, for the type named
CharSource(context, name, body) ==
    IF context = "global"
    THEN <<"v", "a", "r", " ", "c", ":", " ">> \o TypeChars[name]
             \o <<" ", "=", " ">> \o CharLiteralChars(body) \o <<";">>
    ELSE IF context = "local"
    THEN <<"f", "n", " ", "f", "(", ")", " ", "{", " ", "v", "a", "r", " ",
           "c", ":", " ">> \o TypeChars[name] \o <<" ", "=", " ">>
             \o CharLiteralChars(body) \o <<";", " ", "}">>
    ELSE IF context = "assignment"
    THEN <<"f", "n", " ", "f", "(", "c", ":", " ">> \o TypeChars[name]
             \o <<")", " ", "{", " ", "c", " ", "=", " ">>
             \o CharLiteralChars(body) \o <<";", " ", "}">>
    ELSE IF context = "return"
    THEN <<"f", "n", " ", "f", "(", ")", " ", "-", ">", " ">>
             \o TypeChars[name] \o <<" ", "{", " ", "r", "e", "t", "u", "r",
                                     "n", " ">>
             \o CharLiteralChars(body) \o <<";", " ", "}">>
    ELSE IF context = "argument"
    THEN <<"f", "n", " ", "f", "(", "c", ":", " ">> \o TypeChars[name]
             \o <<")", " ", "{", " ", "f", "(">> \o CharLiteralChars(body)
             \o <<")", ";", " ", "}">>
    ELSE <<"f", "n", " ", "f", "(", "c", ":", " ">> \o TypeChars[name]
             \o <<")", " ", "{", " ", "c", " ", "+", " ">>
             \o CharLiteralChars(body) \o <<";", " ", "}">>

CharTypeNames == {"char", "u8", "int"}

CharSources ==
    {CharSource(context, name, body) :
         context \in CharContexts, name \in CharTypeNames,
         body \in CharBodies \cup {NumberBody}}

CharInit == Start(CharSources, Compiling)

CharSpec == CharInit /\ [][Next]_vars

\* C23: a character literal 'c' or '\e' in expression position is parsed
\* into a CharLiteral node, which the type checker types as char.
C23_CharLiteralParsed ==
    pc \notin {"lex", "parse"} =>
        /\ err.stage # "parse"
        /\ \A body \in CharBodies :
               src = CharSource("global", "char", body) =>
                   /\ Len(ast) = 1
                   /\ ast[1].cls = "VariableDef"
                   /\ ast[1].value.cls = "CharLiteral"
                   /\ check(TypeChecker, ast[1].value).n = Some(Type("char"))

\* var c: char = 'a'; was lexed into a CLIT token and the parser stopped
C23_CharLiteralUnexpected ==
    /\ pc = "exit1"
    /\ src = CharSource("global", "char", <<"a">>)
    /\ \E i \in 1..Len(tokens) : tokens[i].type = "CLIT"
    /\ err.cls = "ParserError"
    /\ err.msg = "Unexpected token: TokenType.CLIT"
    /\ ast = <<>>

-----------------------------------------------------------------------------
\* CodeGen._codegen_function, _codegen_binary_op: the slots and the pushes

\* the names of a function of the parameters and the locals, in the order of
\* their slots' assignment by the model of the source
SlotNames(params, locals) ==
    SubSeq(ParamNames, 1, params) \o SubSeq(LocalNames, 1, locals)

\*   return <first name> + <last name>;        or 1 + 1 without a name
SumChars(names) ==
    <<"r", "e", "t", "u", "r", "n", " ">>
        \o (IF Len(names) = 0 THEN <<"1", " ", "+", " ", "1">>
            ELSE <<names[1], " ", "+", " ", names[Len(names)]>>)
        \o <<";", " ">>

\*   fn f(a: int, ...) -> int { var u: int = 1; ... return a + w; }
SlotSource(params, locals) ==
    <<"f", "n", " ", "f", "(">> \o ParamChars(1, params)
        \o <<")", " ", "-", ">", " ", "i", "n", "t", " ", "{", " ">>
        \o LocalChars(1, locals)
        \o SumChars(SlotNames(params, locals)) \o <<"}">>

SlotSources ==
    {SlotSource(params, locals) : params \in 0..MaxParams,
                                  locals \in 0..MaxLocals}

SlotInit == Start(SlotSources, Compiling)

SlotSpec == SlotInit /\ [][Next]_vars

\* the registers and the accumulator a slot is stored from
SlotRegisters == {arg_regs[i] : i \in 1..Len(arg_regs)} \cup {"rax"}

\* the k of the slots [rbp-k] the lines store a parameter or a local into
Slots(lines) ==
    {k \in {8 * j : j \in 1..(2 * (MaxParams + MaxLocals))} :
         \E r \in SlotRegisters :
             HasLine(lines, "    mov [rbp-" \o NatStr(k) \o "], " \o r)}

\* the bytes the line gives back to rsp: n for "add rsp, n", else 0
Released(l) ==
    IF \E n \in 1..(16 * (MaxParams + MaxLocals)) :
           l = "    add rsp, " \o NatStr(n)
    THEN CHOOSE n \in 1..(16 * (MaxParams + MaxLocals)) :
             l = "    add rsp, " \o NatStr(n)
    ELSE 0

\* the lines of the one function between "mov rbp, rsp" and "mov rsp, rbp"
FrameLines(lines) ==
    {i \in 1..Len(lines) :
         /\ \E j \in 1..(i - 1) : lines[j] = "    mov rbp, rsp"
         /\ \A j \in 1..i : lines[j] # "    mov rsp, rbp"}

\* rbp - rsp just after line i of the frame
RECURSIVE Depth(_, _)
Depth(lines, i) ==
    IF i = 0 \/ lines[i] = "    mov rbp, rsp" THEN 0
    ELSE Depth(lines, i - 1)
             + (IF lines[i] \in {"    push rax", "    push rbx"} THEN 8
                ELSE Reserved(lines[i]))
             - (IF lines[i] \in {"    pop rax", "    pop rbx"} THEN 8
                ELSE Released(lines[i]))

\* the k of the words [rbp-k] that the pushes of the frame write
PushedWords(lines) ==
    {Depth(lines, i) : i \in {j \in FrameLines(lines) :
                                  lines[j] \in {"    push rax",
                                                "    push rbx"}}}

\* C24: in every generated function each slot [rbp-k] assigned to a local
\* variable or a parameter lies inside the region reserved by the "sub rsp"
\* instructions emitted before the body (k <= total bytes subtracted), so a
\* push emitted while evaluating an expression never writes to the slot of a
\* local or parameter.
C24_FrameSafety ==
    pc \in Terminal =>
        /\ ~IsNone(asm)
        /\ \A params \in 0..MaxParams : \A locals \in 0..MaxLocals :
               src = SlotSource(params, locals) =>
                   /\ Slots(Val(asm)) = {8 * j : j \in 1..(params + locals)}
                   /\ \A k \in Slots(Val(asm)) : k <= TotalReserved(Val(asm))
                   /\ PushedWords(Val(asm)) \cap Slots(Val(asm)) = {}

\* fn add(a: int, b: int) -> int { return a + b; } is compiled: 8 bytes are
\* reserved, rsi is stored at [rbp-16], and the push of a's value writes the
\* same word before b is loaded from it
C24_PushOverwritesParameter ==
    /\ pc = "done"
    /\ src = SlotSource(2, 0)
    /\ TotalReserved(Val(asm)) = 8
    /\ HasLines(Val(asm), <<"    mov [rbp-16], rsi", "    mov rax, [rbp-8]",
                            "    push rax", "    mov rax, [rbp-16]">>)
    /\ PushedWords(Val(asm)) = {16}
    /\ 16 \in Slots(Val(asm))

-----------------------------------------------------------------------------
\* CodeGen._codegen_function_call: the argument registers of a call

\* the largest number of arguments of the call
MaxCallArgs == 3

\* the arguments: the literal 1, the parameter a, the call g(2)
ArgumentKinds == {"literal", "parameter", "call"}

ArgumentChars(kind) ==
    IF kind = "literal" THEN <<"1">>
    ELSE IF kind = "parameter" THEN <<"a">>
    ELSE <<"g", "(", "2", ")">>

\* the lines that leave the value of the argument in rax
ArgumentLines(kind) ==
    IF kind = "literal" THEN <<"    mov rax, 1">>
    ELSE IF kind = "parameter" THEN <<"    mov rax, [rbp-8]">>
    ELSE <<"    mov rax, 2", "    mov rdi, rax", "    xor rax, rax",
           "    call g">>

RECURSIVE ArgumentListChars(_)
ArgumentListChars(kinds) ==
    IF Len(kinds) = 0 THEN <<>>
    ELSE ArgumentChars(Head(kinds))
             \o (IF Len(kinds) > 1 THEN <<",", " ">> ELSE <<>>)
             \o ArgumentListChars(Tail(kinds))

\*   extern p(...); fn g(x: int) -> int { return x; }
\*   fn f(a: int) { p(<arguments>); }
NestedCallSource(kinds) ==
    <<"e", "x", "t", "e", "r", "n", " ", "p", "(", ".", ".", ".", ")", ";",
      " ", "f", "n", " ", "g", "(", "x", ":", " ", "i", "n", "t", ")", " ",
      "-", ">", " ", "i", "n", "t", " ", "{", " ", "r", "e", "t", "u", "r",
      "n", " ", "x", ";", " ", "}", " ", "f", "n", " ", "f", "(", "a", ":",
      " ", "i", "n", "t", ")", " ", "{", " ", "p", "(">>
        \o ArgumentListChars(kinds) \o <<")", ";", " ", "}">>

ArgumentLists == UNION {[1..n -> ArgumentKinds] : n \in 1..MaxCallArgs}

NestedCallSources == {NestedCallSource(kinds) : kinds \in ArgumentLists}

NestedCallInit == Start(NestedCallSources, Compiling)

NestedCallSpec == NestedCallInit /\ [][Next]_vars

\* the number of lines of the arguments 1..i and of their moves
RECURSIVE LoweredLength(_, _)
LoweredLength(kinds, i) ==
    IF i = 0 THEN 0
    ELSE LoweredLength(kinds, i - 1) + Len(ArgumentLines(kinds[i])) + 1

\* the index of "call p", the one call of p
CallOfP(lines) == CHOOSE c \in 1..Len(lines) : lines[c] = "    call p"

\* the index of the line that moves argument i of p into its register: the
\* moves are followed by "xor rax, rax" and the call
MoveOf(lines, kinds, i) ==
    CallOfP(lines) - 2 - LoweredLength(kinds, Len(kinds))
        + LoweredLength(kinds, i)

\* the line writes the register
WritesRegister(l, reg) ==
    l \in {"    mov " \o reg \o ", rax", "    xor " \o reg \o ", " \o reg,
           "    pop " \o reg}

\* C25: once the value of argument i (i < 6) has been moved into its
\* register, no instruction emitted before the call of that same call writes
\* that register again, for any argument expressions, including arguments
\* that are themselves function calls.
C25_ArgumentRegistersStable ==
    pc \in Terminal =>
        /\ ~IsNone(asm)
        /\ \A kinds \in ArgumentLists :
               src = NestedCallSource(kinds) =>
                   \A i \in 1..Len(kinds) :
                       /\ Val(asm)[MoveOf(Val(asm), kinds, i)]
                              = "    mov " \o arg_regs[i] \o ", rax"
                       /\ \A j \in (MoveOf(Val(asm), kinds, i) + 1)
                                       ..(CallOfP(Val(asm)) - 1) :
                              ~WritesRegister(Val(asm)[j], arg_regs[i])

\* p(1, g(2)) is compiled: rdi holds 1, then the lowering of g(2) moves 2
\* into rdi before p is called
C25_NestedCallRewritesRdi ==
    /\ pc = "done"
    /\ src = NestedCallSource(<<"literal", "call">>)
    /\ HasLines(Val(asm), <<"    mov rax, 1", "    mov rdi, rax",
                            "    mov rax, 2", "    mov rdi, rax",
                            "    xor rax, rax", "    call g",
                            "    mov rsi, rax", "    xor rax, rax",
                            "    call p">>)

-----------------------------------------------------------------------------
\* CodeGen._codegen_binary_op, _codegen_function_call: the balance of rsp

\* the largest number of statements in the body
MaxStatements == 2

\* the statements: an expression, a local variable definition, an
\* assignment, a call with a stack argument, a call with two stack arguments
\* inside an expression
StatementKinds == {"expression", "local", "assignment", "call", "nested"}

\*   a + 1 * a;                       var u: int = a - 1;
\*   a = a / 2;                       p(1, 2, 3, 4, 5, 6, a + 7);
\*   a + p(1, 2, 3, 4, 5, 6, 7, a * 2);
StatementChars(kind, i) ==
    IF kind = "expression"
    THEN <<"a", " ", "+", " ", "1", " ", "*", " ", "a", ";", " ">>
    ELSE IF kind = "local"
    THEN <<"v", "a", "r", " ", LocalNames[i], ":", " ", "i", "n", "t", " ",
           "=", " ", "a", " ", "-", " ", "1", ";", " ">>
    ELSE IF kind = "assignment"
    THEN <<"a", " ", "=", " ", "a", " ", "/", " ", "2", ";", " ">>
    ELSE IF kind = "call"
    THEN <<"p", "(", "1", ",", " ", "2", ",", " ", "3", ",", " ", "4", ",",
           " ", "5", ",", " ", "6", ",", " ", "a", " ", "+", " ", "7", ")",
           ";", " ">>
    ELSE <<"a", " ", "+", " ", "p", "(", "1", ",", " ", "2", ",", " ", "3",
           ",", " ", "4", ",", " ", "5", ",", " ", "6", ",", " ", "7", ",",
           " ", "a", " ", "*", " ", "2", ")", ";", " ">>

RECURSIVE StatementListChars(_, _)
StatementListChars(kinds, i) ==
    IF i > Len(kinds) THEN <<>>
    ELSE StatementChars(kinds[i], i) \o StatementListChars(kinds, i + 1)

\*   extern p(...) -> int; fn f(a: int) { <statements> }
BalanceSource(kinds) ==
    <<"e", "x", "t", "e", "r", "n", " ", "p", "(", ".", ".", ".", ")", " ",
      "-", ">", " ", "i", "n", "t", ";", " ", "f", "n", " ", "f", "(", "a",
      ":", " ", "i", "n", "t", ")", " ", "{", " ">>
        \o StatementListChars(kinds, 1) \o <<"}">>

StatementLists == UNION {[1..n -> StatementKinds] : n \in 0..MaxStatements}

BalanceSources == {BalanceSource(kinds) : kinds \in StatementLists}

BalanceInit == Start(BalanceSources, Compiling)

BalanceSpec == BalanceInit /\ [][Next]_vars

\* the index of the store of the parameter a, the last line before the body
ParameterStore(lines) ==
    CHOOSE i \in 1..Len(lines) :
        \E k \in 1..(MaxStatements + 1) :
            lines[i] = "    mov [rbp-" \o NatStr(8 * k) \o "], rdi"

\* the index of the last line of the body
BodyEnd(lines) ==
    (CHOOSE i \in 1..Len(lines) : lines[i] = "    mov rsp, rbp") - 1

\* the bytes the line takes from rsp, less the bytes it gives back
Effect(l) ==
    IF l = "    push rax" THEN 8
    ELSE IF l = "    pop rax" THEN -8
    ELSE Reserved(l) - Released(l)

\* from line i on, with rsp depth bytes below its value after the parameter
\* stores: rsp is never above that value in the body, and has it after the
\* body
RECURSIVE BalancedFrom(_, _, _)
BalancedFrom(lines, i, depth) ==
    IF lines[i] = "    mov rsp, rbp" THEN depth = 0
    ELSE /\ depth + Effect(lines[i]) >= 0
         /\ BalancedFrom(lines, i + 1, depth + Effect(lines[i]))

Balanced(lines) == BalancedFrom(lines, ParameterStore(lines) + 1, 0)

\* C26: the code emitted for any expression, call, assignment or local
\* variable definition restores rsp (the bytes taken by its push and sub rsp
\* instructions equal the bytes released by its pop and add rsp
\* instructions); hence after every non-return statement of a function body
\* rsp equals its value after the prologue and parameter stores.  (Every
\* body of the family has each of its prefixes in the family.)
C26_StackBalance ==
    pc \in Terminal =>
        /\ \A kinds \in StatementLists :
               /\ src = BalanceSource(kinds)
               /\ \A i \in 1..Len(kinds) : kinds[i] # "assignment"
               => ~IsNone(asm)
        /\ ~IsNone(asm) => Balanced(Val(asm))

\* a local variable definition and a call inside an expression are compiled:
\* the body takes and releases bytes with push, pop and add rsp
C26_PushesAndReleases ==
    /\ pc = "done"
    /\ src = BalanceSource(<<"local", "nested">>)
    /\ HasLines(Val(asm), <<"    call p", "    add rsp, 16",
                            "    mov rbx, rax", "    pop rax",
                            "    add rax, rbx", "    mov rsp, rbp">>)
    /\ BodyEnd(Val(asm)) - ParameterStore(Val(asm)) > 30
    /\ \E i \in ParameterStore(Val(asm))..BodyEnd(Val(asm)) :
           Depth(Val(asm), i) = Depth(Val(asm), ParameterStore(Val(asm))) + 24

-----------------------------------------------------------------------------
\* Importer.resolve_imports: sequences of import statements

\* the largest number of import statements of the source
MaxImports == 2

\* the import statements:
\*   import a.b : foo;     import a.b : bar;     import q : qf;
\*   import q : qv;        import p;
ImportStatements ==
    {<<"i", "m", "p", "o", "r", "t", " ", "a", ".", "b", " ", ":", " ", "f",
       "o", "o", ";", " ">>,
     <<"i", "m", "p", "o", "r", "t", " ", "a", ".", "b", " ", ":", " ", "b",
       "a", "r", ";", " ">>,
     <<"i", "m", "p", "o", "r", "t", " ", "q", " ", ":", " ", "q", "f", ";",
       " ">>,
     <<"i", "m", "p", "o", "r", "t", " ", "q", " ", ":", " ", "q", "v", ";",
       " ">>,
     <<"i", "m", "p", "o", "r", "t", " ", "p", ";", " ">>}

ImportLists == UNION {[1..n -> ImportStatements] : n \in 1..MaxImports}

RECURSIVE Flatten(_)
Flatten(seqs) ==
    IF Len(seqs) = 0 THEN <<>> ELSE Head(seqs) \o Flatten(Tail(seqs))

ImportSources == {Flatten(list) : list \in ImportLists}

\*   import a.b : foo; import a.b : bar;
FooThenBarSource ==
    <<"i", "m", "p", "o", "r", "t", " ", "a", ".", "b", " ", ":", " ", "f",
      "o", "o", ";", " ", "i", "m", "p", "o", "r", "t", " ", "a", ".", "b",
      " ", ":", " ", "b", "a", "r", ";", " ">>

ImportInit == Start(ImportSources, Compiling)

ImportSpec == ImportInit /\ [][Next]_vars

\* C27: every symbol named in the explicit symbol list of an import
\* statement and defined at the top level of the imported module is spliced
\* as an ExternDecl stub into the importing module, for any sequence of
\* import statements, including when the same module was already imported
\* earlier with a different symbol list or was already loaded transitively
\* by another imported module.
C27_ListedSymbolsSpliced ==
    Imported =>
        \A i \in 1..Len(Listing) :
            \A name \in Range(Val(Listing[i].imported_symbols))
                            \cap Defined(ModuleOf(Listing[i])) :
                name \in StubNames(ast)

\* import a.b : foo; import a.b : bar; is resolved: both symbols are
\* defined by a.b, the module is loaded once and the list holds the stub of
\* foo alone
C27_SecondListSkipped ==
    /\ src = FooThenBarSource
    /\ Imported
    /\ Len(Listing) = 2
    /\ {"foo", "bar"} \subseteq Defined(ModuleOf(Listing[2]))
    /\ imported = <<"lib/a/b.sw">>
    /\ StubNames(ast) = {"foo"}

-----------------------------------------------------------------------------
\* Importer.resolve_imports: the order of the spliced stubs

\* the top-level lists resolve_imports can return for the tree, one for each
\* order in which the sets of names are iterated
ResolvedLists ==
    {resolve_imports(Importer, files, ast, order).n :
         order \in Orders(LoadedNames(files, ast))}

\* the externs of the assembly, in the order of their directives
ExternLines(lines) ==
    SelectSeq(lines, LAMBDA l : \E name \in LoadedNames(files, ParsedAst) :
                                    l = "    extern " \o name)

\* C28: for a fixed importing AST and fixed module files, two runs of
\* resolve_imports produce the same top-level list, with the spliced
\* ExternDecl stubs in the same order (and therefore the same order of
\* extern directives in the assembly); the order does not depend on the
\* iteration order of a set.
C28_SplicingDeterministic ==
    [][pc = "import" /\ pc' \in {"check", "exit0"}
           => \A other \in ResolvedLists : ast' = other]_vars

\* import q; import q; is compiled with the stub of qv before the stub of
\* qf, and another run of resolve_imports on the same tree gives the stub of
\* qf first
C28_OtherOrderPossible ==
    /\ src = TwiceSource
    /\ pc = "done"
    /\ ExternLines(Val(asm)) = <<"    extern qv", "    extern qf">>
    /\ \E other \in {resolve_imports(Importer, files, ParsedAst, order).n :
                         order \in Orders(LoadedNames(files, ParsedAst))} :
           /\ other # ast
           /\ other[1].name = "qf"
           /\ ast[1].name = "qv"

-----------------------------------------------------------------------------
\* TypeChecker.check_VariableDef: variable definitions without initializer

\* the places of the definition: the top level, the body of a function
DefinitionPlaces == {"global", "local"}

\*   var x: T;      var x: T = 1;      fn f() { var x: T; }
DefinitionSource(place, name, initialized) ==
    (IF place = "local"
     THEN <<"f", "n", " ", "f", "(", ")", " ", "{", " ">> ELSE <<>>)
        \o <<"v", "a", "r", " ", "x", ":", " ">> \o TypeChars[name]
        \o (IF initialized THEN <<" ", "=", " ", "1">> ELSE <<>>)
        \o <<";">>
        \o (IF place = "local" THEN <<" ", "}">> ELSE <<>>)

DefinitionSources ==
    {DefinitionSource(place, name, initialized) :
         place \in DefinitionPlaces, name \in DOMAIN TypeChars,
         initialized \in BOOLEAN}

DefinitionInit == Start(DefinitionSources, Compiling)

DefinitionSpec == DefinitionInit /\ [][Next]_vars

\* C29: a variable definition without an initializer (var x: int; at top
\* level or inside a function) is accepted by the type checker, which
\* records x with its declared type, so that the code generator's handling
\* of uninitialized globals (x: resq 1 in .bss) is reachable through the
\* pipeline.
C29_UninitializedAccepted ==
    pc \in Terminal =>
        \A place \in DefinitionPlaces : \A name \in DOMAIN TypeChars :
            src = DefinitionSource(place, name, FALSE) =>
                /\ Accepted
                /\ place = "global" =>
                       /\ "x" \in DOMAIN checker.symbols
                       /\ TypeEq(checker.symbols["x"], Type(name))
                       /\ ~IsNone(asm)
                       /\ HasLines(Val(asm),
                                   <<"section .bss", "    x: resq 1">>)

\* var x: int; was parsed into a VariableDef without a value, and the type
\* checker stopped at the missing value
C29_MissingValueRejected ==
    /\ pc = "exit1"
    /\ src = DefinitionSource("global", "int", FALSE)
    /\ Len(ast) = 1
    /\ ast[1].cls = "VariableDef"
    /\ IsNone(ast[1].value)
    /\ Rejected
    /\ err.msg = "No type checker implemented for NoneType"
    /\ IsNone(asm)

-----------------------------------------------------------------------------
\* TypeChecker.check_FunctionDef, check_FunctionCall: the order of the
\* declarations of callables

\* what f calls: itself, a function or an extern declared before f, a
\* function or an extern declared after f, a name that is not declared
CalleeKinds ==
    {"self", "earlier", "later", "extern", "variadic", "typed",
     "later_extern", "undeclared"}

\* the names of the callee that is not f
CalleeNames == {"g", "k"}

\* the kinds with the declaration of the callee before f
DeclaredEarlier == {"earlier", "extern", "variadic", "typed"}

\* the declaration of the callee of the kind
CalleeDeclaration(kind, name) ==
    IF kind \in {"earlier", "later"}
    THEN <<"f", "n", " ", name, "(", ")", " ", "{", " ", "}">>
    ELSE IF kind \in {"extern", "later_extern"}
    THEN <<"e", "x", "t", "e", "r", "n", " ", name, "(", ")", ";">>
    ELSE IF kind = "variadic"
    THEN <<"e", "x", "t", "e", "r", "n", " ", name, "(", ".", ".", ".", ")",
           ";">>
    ELSE IF kind = "typed"
    THEN <<"e", "x", "t", "e", "r", "n", " ", name, "(", "i", "n", "t", ")",
           ";">>
    ELSE <<>>

\* the name f calls, and the arguments of the call
CalleeOf(kind, name) == IF kind = "self" THEN "f" ELSE name

CallArguments(kind) == IF kind = "typed" THEN <<"1">> ELSE <<>>

\*   fn g() { }  fn f() { g(); }         fn f() { g(); }  fn g() { }
OrderSource(kind, name) ==
    (IF kind \in DeclaredEarlier
     THEN CalleeDeclaration(kind, name) \o <<" ">> ELSE <<>>)
        \o <<"f", "n", " ", "f", "(", ")", " ", "{", " ",
             CalleeOf(kind, name), "(">>
        \o CallArguments(kind) \o <<")", ";", " ", "}">>
        \o (IF kind \in {"later", "later_extern"}
            THEN <<" ">> \o CalleeDeclaration(kind, name) ELSE <<>>)

OrderSources ==
    {OrderSource(kind, name) : kind \in CalleeKinds, name \in CalleeNames}

OrderInit == Start(OrderSources, Compiling)

OrderSpec == OrderInit /\ [][Next]_vars

\* the index of the definition of f in the top-level list
DefinitionOfF ==
    CHOOSE k \in 1..Len(ast) :
        ast[k].cls = "FunctionDef" /\ ast[k].name = "f"

\* the function table at the moment the call in the body of f is checked:
\* the entries made before f, and f
TableAtCall == DOMAIN CheckerBefore(DefinitionOfF).functions \cup {"f"}

\* C30: a call is accepted only when the callee is already in the function
\* table at the moment the call is checked; a function may call itself (it
\* is registered before its body is checked) and any function or extern
\* declared earlier in the top-level list, while a call to a function
\* defined later in the file is rejected with a 'Function not defined'
\* TypeError.  (A call passes the check of its callee when no such TypeError
\* is raised; the check of the arguments of a call to an extern declared
\* with parameter types is the subject of C1.)
C30_DeclarationOrder ==
    pc \in Terminal =>
        \A kind \in CalleeKinds : \A name \in CalleeNames :
            src = OrderSource(kind, name) =>
                /\ CalleeOf(kind, name) \in TableAtCall
                       <=> kind \in DeclaredEarlier \cup {"self"}
                /\ IF CalleeOf(kind, name) \in TableAtCall
                   THEN /\ err.msg # "Function '" \o CalleeOf(kind, name)
                                         \o "' not defined"
                        /\ kind # "typed" => Accepted
                   ELSE /\ Rejected
                        /\ err.msg = "Function '" \o CalleeOf(kind, name)
                                         \o "' not defined"
                        /\ IsNone(asm)

\* fn f() { g(); } fn g() { } is rejected, g being defined after the call
C30_LaterCalleeRejected ==
    /\ pc = "exit1"
    /\ src = OrderSource("later", "g")
    /\ Len(ast) = 2
    /\ ast[2].name = "g"
    /\ TableAtCall = {"f"}
    /\ Rejected
    /\ err.msg = "Function 'g' not defined"

\* fn f() { f(); } is accepted and compiled
C30_SelfCallAccepted ==
    /\ pc = "done"
    /\ src = OrderSource("self", "g")
    /\ Accepted
    /\ HasLine(Val(asm), "    call f")

=============================================================================
